---------------------------- MODULE Spec2Model ----------------------------
(***************************************************************************)
(* The rolling 24h average engine of ttc-leaderboard (api/avg24h.ts).      *)
(*                                                                         *)
(* Numbers.  Timestamps are integers (ms).  Speeds are held in tenths of   *)
(* a km/h, so that a one-decimal speed such as 12.3 km/h is the integer    *)
(* 123; round1 then rounds to an integer number of tenths.  The quotient   *)
(* weightedSum / totalWeight of compute24hAvgKmh is held exactly, as a     *)
(* reduced fraction <<num, den>>.  A nullable number is a sequence: <<>>   *)
(* is null, <<n>> the number n.  The numbers NaN and Infinity, and the     *)
(* JSON value null and the empty string where a number is expected, are    *)
(* four integers no timestamp or speed of the model comes near.            *)
(***************************************************************************)
EXTENDS Integers, Sequences, FiniteSets, TLC

VARIABLES
    kv,        \* the external store: key -> stored value
    hasPipeline, \* whether the store client offers pipeline()
    call,      \* the refresh invocation in flight (arguments, locals, position)
    ncalls,    \* how many refresh invocations have started
    prev,      \* the last invocation that ended: its arguments and outcome
    upsertIO,  \* one application of trimAndUpsert: arguments and result
    avgIO,     \* one application of compute24hAvgKmh: arguments and result
    codecIO,   \* one application of parseSamples or asNumber: input and result
    avgFrom,   \* per route, the bucket of the refresh that last wrote avg:<route>
    chunkIO,   \* the store requests of one refresh over many routes
    apiIO,     \* one request to /api/ttc: the feed, the environment, the response
    ui,        \* the page (App.tsx): leaderboard, update queue, metric, timer
    setIO,     \* one call of setManyChunked: kvSets, the groups sent so far
    bucketIO,  \* one application of toBucketMs: argument and result
    titles,    \* the route-title cache of the handler and the calls made on it
    poll       \* the last response the page's poll got: the routes it named

vars == <<kv, hasPipeline, call, ncalls, prev, upsertIO, avgIO, codecIO, avgFrom,
          chunkIO, apiIO, ui, setIO, bucketIO, titles, poll>>

(***************************************************************************)
(* Program constants                                                       *)
(***************************************************************************)
WINDOW_MS == 24 * 60 * 60 * 1000
SAMPLE_INTERVAL_MS == 60 * 1000

Ceil(a, b) == IF a % b = 0 THEN a \div b ELSE (a \div b) + 1

\* MAX_SAMPLES_PER_ROUTE without the two entries of slack.
MaxSamplesWithoutSlack == Ceil(WINDOW_MS, SAMPLE_INTERVAL_MS)

MAX_SAMPLES_PER_ROUTE == Ceil(WINDOW_MS, SAMPLE_INTERVAL_MS) + 2

Null == <<>>

NaN == -2000000001
Infinity == 2000000001
JsonNull == 2000000002
EmptyString == 2000000003

Sample(t, v) == [t |-> t, v |-> v]

Max(a, b) == IF a >= b THEN a ELSE b
Min(a, b) == IF a <= b THEN a ELSE b

(***************************************************************************)
(* Pure functions of avg24h.ts                                             *)
(***************************************************************************)
\* toBucketMs with Math.trunc in place of Math.floor.
ToBucketMsTruncating(nowMs) ==
    IF nowMs >= 0 THEN (nowMs \div SAMPLE_INTERVAL_MS) * SAMPLE_INTERVAL_MS
    ELSE -(((-nowMs) \div SAMPLE_INTERVAL_MS) * SAMPLE_INTERVAL_MS)

\* Math.floor(nowMs / SAMPLE_INTERVAL_MS) * SAMPLE_INTERVAL_MS; \div rounds
\* down, as Math.floor does.
toBucketMs(nowMs) == (nowMs \div SAMPLE_INTERVAL_MS) * SAMPLE_INTERVAL_MS

\* Number.isFinite(x)
IsFinite(x) == x \in Int /\ x \notin {NaN, Infinity, JsonNull, EmptyString}

\* a + b and v * d (d > 0) of numbers that may be NaN or Infinity
Plus(a, b) ==
    IF a = NaN \/ b = NaN THEN NaN
    ELSE IF a = Infinity \/ b = Infinity THEN Infinity
    ELSE a + b

TimesMs(v, d) == IF IsFinite(v) THEN v * d ELSE v

\* Array.prototype.sort((a, b) => a.t - b.t): a stable sort by timestamp
\* (SortSeq is an insertion sort; with a strict order it is stable).
SortByT(samples) == SortSeq(samples, LAMBDA a, b : a.t < b.t)

\* slice(0, n) in place of slice(-n): the oldest entries.
SliceFirst(s, n) == IF Len(s) <= n THEN s ELSE SubSeq(s, 1, n)

\* Array.prototype.slice(-n)
SliceLast(s, n) == IF Len(s) <= n THEN s ELSE SubSeq(s, Len(s) - n + 1, Len(s))

InWindow(s, cutoffMs) == IsFinite(s.t) /\ IsFinite(s.v) /\ s.t >= cutoffMs

\* trimAndUpsert without the withoutBucket filter.
TrimAndUpsertKeepsBucket(samples, cutoffMs, sample) ==
    LET kept == SelectSeq(samples, LAMBDA s : InWindow(s, cutoffMs))
        sorted == SortByT(Append(kept, sample))
    IN IF Len(sorted) > MAX_SAMPLES_PER_ROUTE
       THEN SliceLast(sorted, MAX_SAMPLES_PER_ROUTE)
       ELSE sorted

trimAndUpsert(samples, cutoffMs, sample) ==
    LET kept == SelectSeq(samples, LAMBDA s : InWindow(s, cutoffMs))
        withoutBucket == SelectSeq(kept, LAMBDA s : s.t # sample.t)
        sorted == SortByT(Append(withoutBucket, sample))
    IN IF Len(sorted) > MAX_SAMPLES_PER_ROUTE
       THEN SliceLast(sorted, MAX_SAMPLES_PER_ROUTE)
       ELSE sorted

\* creditStart without the clamp to the window.
CreditStartUnclamped(sorted, i, cutoffMs) == sorted[i].t

\* The interval credited to sorted[i]: [start, end], counted when end > start.
creditStart(sorted, i, cutoffMs) == Max(sorted[i].t, cutoffMs)

\* creditEnd without the cap of one sampling interval.
CreditEndUncapped(sorted, i, nowMs) ==
    IF i < Len(sorted) THEN Min(nowMs, sorted[i + 1].t) ELSE nowMs

\* creditEnd without the clamp to the next sample's timestamp.
CreditEndIgnoringNext(sorted, i, nowMs) ==
    Min(nowMs, sorted[i].t + SAMPLE_INTERVAL_MS)

creditEnd(sorted, i, nowMs) ==
    LET capped == sorted[i].t + SAMPLE_INTERVAL_MS
    IN IF i < Len(sorted)
       THEN Min(nowMs, Min(sorted[i + 1].t, capped))
       ELSE Min(nowMs, capped)

\* The duration credited to sorted[i]; 0 when the loop skips it.
durationMs(sorted, i, nowMs, cutoffMs) ==
    LET start == creditStart(sorted, i, cutoffMs)
        d == creditEnd(sorted, i, nowMs) - start
    IN IF start > nowMs THEN 0 ELSE IF d <= 0 THEN 0 ELSE d

\* weightedSum that adds the speeds without their durations.
RECURSIVE WeightedSumUnweighted(_, _, _, _)
WeightedSumUnweighted(sorted, i, nowMs, cutoffMs) ==
    IF i > Len(sorted) THEN 0
    ELSE (IF durationMs(sorted, i, nowMs, cutoffMs) > 0 THEN sorted[i].v ELSE 0)
         + WeightedSumUnweighted(sorted, i + 1, nowMs, cutoffMs)

RECURSIVE weightedSum(_, _, _, _)
weightedSum(sorted, i, nowMs, cutoffMs) ==
    IF i > Len(sorted) THEN 0
    ELSE LET d == durationMs(sorted, i, nowMs, cutoffMs)
         IN Plus(IF d = 0 THEN 0 ELSE TimesMs(sorted[i].v, d),
                 weightedSum(sorted, i + 1, nowMs, cutoffMs))

RECURSIVE totalWeight(_, _, _, _)
totalWeight(sorted, i, nowMs, cutoffMs) ==
    IF i > Len(sorted) THEN 0
    ELSE durationMs(sorted, i, nowMs, cutoffMs)
         + totalWeight(sorted, i + 1, nowMs, cutoffMs)

Abs(x) == IF x < 0 THEN -x ELSE x

RECURSIVE Gcd(_, _)
Gcd(a, b) == IF b = 0 THEN a ELSE Gcd(b, a % b)

\* The exact quotient n / d (d > 0), as a reduced fraction.
Quotient(n, d) ==
    IF ~IsFinite(n) THEN <<n, 1>>
    ELSE LET g == Gcd(Abs(n), d)
         IN <<n \div g, d \div g>>

\* compute24hAvgKmh that returns 0 where no time was credited.
Compute24hAvgKmhZeroForNoData(samples, nowMs, cutoffMs) ==
    IF Len(samples) = 0 THEN Null
    ELSE LET sorted == SortByT(samples)
             ws == weightedSum(sorted, 1, nowMs, cutoffMs)
             tw == totalWeight(sorted, 1, nowMs, cutoffMs)
         IN IF tw <= 0 THEN <<0, 1>> ELSE Quotient(ws, tw)

compute24hAvgKmh(samples, nowMs, cutoffMs) ==
    IF Len(samples) = 0 THEN Null
    ELSE LET sorted == SortByT(samples)
             ws == weightedSum(sorted, 1, nowMs, cutoffMs)
             tw == totalWeight(sorted, 1, nowMs, cutoffMs)
         IN IF tw <= 0 THEN Null ELSE Quotient(ws, tw)

\* Math.round(n * 10) / 10 of the fraction q, in tenths: round half up.
round1(q) ==
    IF ~IsFinite(q[1]) THEN q[1] ELSE (2 * q[1] + q[2]) \div (2 * q[2])


(***************************************************************************)
(* The store and its values                                                *)
(*                                                                         *)
(* A stored value is a string; its content is held structurally:           *)
(*   absent  the key holds nothing (get and mget yield null)               *)
(*   number  the decimal string of the number n, as String(n) writes it    *)
(*   text    a string that is no number: "null", as String(null) writes it *)
(*   empty   the empty string                                              *)
(*   object  a JSON value that is no array                                 *)
(*   json    a JSON array; each item is a [t, v] tuple, a {t, v} object    *)
(*           or something else; a field of an item is a number, null       *)
(*           (JsonNull) or the empty string (EmptyString)                  *)
(***************************************************************************)
Routes == {"R1", "R2"}

KV_LAST_BUCKET_KEY == <<"lastBucketMs", "">>
sampleKey(routeTag) == <<"samples", routeTag>>
avgKey(routeTag) == <<"avg", routeTag>>

Keys == {KV_LAST_BUCKET_KEY} \cup {sampleKey(r) : r \in Routes}
                             \cup {avgKey(r) : r \in Routes}

Absent == [kind |-> "absent", n |-> 0, items |-> <<>>]
TextNull == [kind |-> "text", n |-> 0, items |-> <<>>]
NumberString(n) == [kind |-> "number", n |-> n, items |-> <<>>]
\* "NaN" and "Infinity", as String writes them
TextOf(n) == [kind |-> "text", n |-> n, items |-> <<>>]

\* String(x ?? 0)
StringOfNullAsZero(x) == IF x = Null THEN NumberString(0) ELSE NumberString(x[1])

\* String(x) of a nullable number
StringOf(x) ==
    IF x = Null THEN TextNull
    ELSE IF IsFinite(x[1]) THEN NumberString(x[1]) ELSE TextOf(x[1])

TextEmpty == [kind |-> "empty", n |-> 0, items |-> <<>>]
JsonObject == [kind |-> "object", n |-> 0, items |-> <<>>]

\* asNumber of a stored value: Number("") is 0
asNumber(value) ==
    IF value.kind = "number" THEN <<value.n>>
    ELSE IF value.kind = "empty" THEN <<0>>
    ELSE Null

\* asNumber of a field of a history entry
fieldNumber(x) ==
    IF x = EmptyString THEN <<0>> ELSE IF IsFinite(x) THEN <<x>> ELSE Null

\* parseSamples that gives up on the first malformed entry.
ParseSamplesAllOrNothing(raw) ==
    IF raw.kind # "json" THEN <<>>
    ELSE IF \E i \in 1..Len(raw.items) :
                \/ raw.items[i].enc \notin {"tuple", "object"}
                \/ fieldNumber(raw.items[i].t) = Null
                \/ fieldNumber(raw.items[i].v) = Null
    THEN <<>>
    ELSE [i \in 1..Len(raw.items) |->
             Sample(fieldNumber(raw.items[i].t)[1], fieldNumber(raw.items[i].v)[1])]

parseSamples(raw) ==
    IF raw.kind # "json" THEN <<>>
    ELSE LET ok == SelectSeq(raw.items, LAMBDA item :
                       /\ item.enc \in {"tuple", "object"}
                       /\ fieldNumber(item.t) # Null
                       /\ fieldNumber(item.v) # Null)
         IN [i \in 1..Len(ok) |->
                Sample(fieldNumber(ok[i].t)[1], fieldNumber(ok[i].v)[1])]

\* The history as the previous release wrote it: an array of {t, v} objects.
legacyEncoding(samples) ==
    [kind |-> "json", n |-> 0,
     items |-> [i \in 1..Len(samples) |->
                   [enc |-> "object",
                    t |-> IF IsFinite(samples[i].t) THEN samples[i].t ELSE JsonNull,
                    v |-> IF IsFinite(samples[i].v) THEN samples[i].v ELSE JsonNull]]]

\* serializeSamples in the encoding of the previous release.
SerializeSamplesAsObjects(samples) == legacyEncoding(samples)

serializeSamples(samples) ==
    [kind |-> "json", n |-> 0,
     items |-> [i \in 1..Len(samples) |->
                   [enc |-> "tuple",
                    t |-> IF IsFinite(samples[i].t) THEN samples[i].t ELSE JsonNull,
                    v |-> IF IsFinite(samples[i].v) THEN samples[i].v ELSE JsonNull]]]

(***************************************************************************)
(* refresh: getAvg24hSpeedsByRouteTag(kv, liveRoutes, nowMs)               *)
(*                                                                         *)
(* One invocation runs from await to await; each store call is one step,   *)
(* which succeeds or raises.  The function holds no try/catch: a raised    *)
(* store error rejects the invocation.                                     *)
(***************************************************************************)
Calls == {"c1", "c2"}

MaxCalls == 2

Reading(tag, speed) == [routeTag |-> tag, liveSpeedKmh |-> speed]

\* The reading batches and clock values the invocations are given.
LiveBatches ==
    { <<>>,
      <<Reading("R1", 200), Reading("R2", 405)>>,
      <<Reading("R1", 200), Reading("R1", 400)>> }

Times == {0, 10000, SAMPLE_INTERVAL_MS, WINDOW_MS + 30000}

\* [...new Set(liveRoutes.map((r) => r.routeTag))]: first occurrences, in order
routeTagsOf(liveRoutes) ==
    LET first == SelectSeq([i \in 1..Len(liveRoutes) |-> i], LAMBDA i :
                     \A j \in 1..(i - 1) :
                         liveRoutes[j].routeTag # liveRoutes[i].routeTag)
    IN [k \in 1..Len(first) |-> liveRoutes[first[k]].routeTag]

\* liveByTag in which the first reading of the route wins.
LiveByTagFirst(liveRoutes, tag) ==
    LET idx == {i \in 1..Len(liveRoutes) : liveRoutes[i].routeTag = tag}
    IN IF idx = {} THEN Null
       ELSE <<liveRoutes[CHOOSE i \in idx : \A j \in idx : j >= i].liveSpeedKmh>>

\* liveByTag.get(tag): the last reading of the route wins
liveByTag(liveRoutes, tag) ==
    LET idx == {i \in 1..Len(liveRoutes) : liveRoutes[i].routeTag = tag}
    IN IF idx = {} THEN Null
       ELSE <<liveRoutes[CHOOSE i \in idx : \A j \in idx : j <= i].liveSpeedKmh>>

Range(s) == {s[i] : i \in 1..Len(s)}

EmptyStore == [k \in Keys |-> Absent]

\* A store left by the previous release, which wrote {t, v} objects: R2 was
\* last refreshed one bucket before R1.
LegacyStore ==
    [EmptyStore EXCEPT
        ![sampleKey("R1")] =
            [kind |-> "json", n |-> 0,
             items |-> << [enc |-> "object", t |-> 0, v |-> 300] >>],
        ![avgKey("R1")] = NumberString(300),
        ![sampleKey("R2")] =
            [kind |-> "json", n |-> 0,
             items |-> << [enc |-> "object", t |-> -SAMPLE_INTERVAL_MS,
                           v |-> 250] >>],
        ![avgKey("R2")] = NumberString(250),
        ![KV_LAST_BUCKET_KEY] = NumberString(0)]

NoAvgFrom == [tag \in Routes |-> Null]

LegacyAvgFrom == [tag \in Routes |->
                     IF tag = "R1" THEN <<0>> ELSE <<-SAMPLE_INTERVAL_MS>>]

IdleCall ==
    [pc |-> "idle", liveRoutes |-> <<>>, nowMs |-> 0, lastBucketMs |-> Null,
     kvSets |-> <<>>, pending |-> {}, out |-> <<>>,
     path |-> "none", error |-> "none", kv0 |-> EmptyStore, readKeys |-> <<>>,
     existing |-> <<>>]

NoPrev == [pc |-> "none", liveRoutes |-> <<>>, nowMs |-> 0, out |-> <<>>,
           path |-> "none", error |-> "none"]

\* cachedOut that reads the first value for every route.
CachedOutFirstValue(routeTags, values) ==
    [tag \in Range(routeTags) |->
        LET v == asNumber(values[1])
        IN IF v = Null THEN Null ELSE <<round1(<<v[1], 1>>)>>]

\* The result map of the cached-average path, from the values mget returned.
cachedOut(routeTags, values) ==
    [tag \in Range(routeTags) |->
        LET i == CHOOSE k \in 1..Len(routeTags) : routeTags[k] = tag
            v == asNumber(values[i])
        IN IF v = Null THEN Null ELSE <<round1(<<v[1], 1>>)>>]

\* nextSamplesOf with the sample stamped nowMs, not its bucket.
NextSamplesAtNow(existing, speed, nowMs) ==
    trimAndUpsert(parseSamples(existing), nowMs - WINDOW_MS,
                  Sample(nowMs, speed))

\* nextSamplesOf that starts from an empty history.
NextSamplesFresh(existing, speed, nowMs) ==
    trimAndUpsert(<<>>, nowMs - WINDOW_MS, Sample(toBucketMs(nowMs), speed))

\* One route of the recompute loop: the next history and the rounded average.
nextSamplesOf(existing, speed, nowMs) ==
    trimAndUpsert(parseSamples(existing), nowMs - WINDOW_MS,
                  Sample(toBucketMs(nowMs), speed))

roundedAvgOf(nextSamples, nowMs) ==
    LET avg == compute24hAvgKmh(nextSamples, nowMs, nowMs - WINDOW_MS)
    IN IF avg = Null THEN Null ELSE <<round1(avg)>>

\* recomputeOut that gives null to a route whose stored history is empty.
RecomputeOutNullIfAbsent(routeTags, liveRoutes, values, nowMs) ==
    [tag \in Range(routeTags) |->
        LET i == CHOOSE k \in 1..Len(routeTags) : routeTags[k] = tag
            live == liveByTag(liveRoutes, tag)
        IN IF live = Null \/ parseSamples(values[i]) = <<>> THEN Null
           ELSE roundedAvgOf(nextSamplesOf(values[i], live[1], nowMs), nowMs)]

recomputeOut(routeTags, liveRoutes, values, nowMs) ==
    [tag \in Range(routeTags) |->
        LET i == CHOOSE k \in 1..Len(routeTags) : routeTags[k] = tag
            live == liveByTag(liveRoutes, tag)
        IN IF live = Null THEN Null
           ELSE roundedAvgOf(nextSamplesOf(values[i], live[1], nowMs), nowMs)]

\* kvSets: for each route in order that has a live reading, its history and
\* then its average.
stagedSets(routeTags, i, liveRoutes, values, nowMs) ==
    LET staged == SelectSeq([k \in 1..(Len(routeTags) + 1 - i) |-> k + i - 1],
                            LAMBDA k : liveByTag(liveRoutes, routeTags[k]) # Null)
    IN [j \in 1..(2 * Len(staged)) |->
           LET k == staged[(j + 1) \div 2]
               tag == routeTags[k]
               nextSamples == nextSamplesOf(values[k],
                                            liveByTag(liveRoutes, tag)[1], nowMs)
           IN IF j % 2 = 1
              THEN <<sampleKey(tag), serializeSamples(nextSamples)>>
              ELSE <<avgKey(tag), StringOf(roundedAvgOf(nextSamples, nowMs))>>]

\* applySets in which the first set of a key wins.
ApplySetsFirstWins(store, sets) ==
    [key \in DOMAIN store |->
        LET idx == {i \in 1..Len(sets) : sets[i][1] = key}
        IN IF idx = {} THEN store[key]
           ELSE sets[CHOOSE i \in idx : \A j \in idx : i <= j][2]]

\* The sets of a sequence applied in order: the last set of a key stays.
applySets(store, sets) ==
    [key \in DOMAIN store |->
        LET idx == {i \in 1..Len(sets) : sets[i][1] = key}
        IN IF idx = {} THEN store[key]
           ELSE sets[CHOOSE i \in idx : \A j \in idx : j <= i][2]]

bucketOf(c) == toBucketMs(call[c].nowMs)
routeTagsIn(c) == routeTagsOf(call[c].liveRoutes)

Start(c, liveRoutes, nowMs) ==
    /\ call[c].pc = "idle"
    /\ ncalls < MaxCalls
    /\ ncalls' = ncalls + 1
    /\ call' = [call EXCEPT ![c] =
                   [IdleCall EXCEPT !.pc = "get", !.liveRoutes = liveRoutes,
                                    !.nowMs = nowMs, !.kv0 = kv]]
    /\ UNCHANGED <<poll, bucketIO, titles, setIO, chunkIO, apiIO, ui, kv, hasPipeline, prev, upsertIO, avgIO, codecIO, avgFrom>>

\* GetMarker without the return for an empty routeTags.
GetMarkerNoEmptyReturn(c) ==
    /\ call[c].pc = "get"
    /\ LET lastBucketMs == asNumber(kv[KV_LAST_BUCKET_KEY])
       IN call' = [call EXCEPT ![c] =
              IF lastBucketMs = <<bucketOf(c)>>
              THEN [@ EXCEPT !.pc = "mgetAvg", !.lastBucketMs = lastBucketMs,
                             !.path = "cached"]
              ELSE [@ EXCEPT !.pc = "mgetSamples", !.lastBucketMs = lastBucketMs,
                             !.path = "recompute"]]
    /\ UNCHANGED <<poll, bucketIO, titles, setIO, chunkIO, apiIO, ui, kv, hasPipeline, ncalls, prev, upsertIO, avgIO, codecIO, avgFrom>>

\* client.get(KV_LAST_BUCKET_KEY) returns; the path is chosen.
GetMarker(c) ==
    /\ call[c].pc = "get"
    /\ LET lastBucketMs == asNumber(kv[KV_LAST_BUCKET_KEY])
       IN call' = [call EXCEPT ![c] =
              IF Len(routeTagsIn(c)) = 0
              THEN [@ EXCEPT !.pc = "returned", !.lastBucketMs = lastBucketMs,
                             !.path = "empty", !.out = <<>>]
              ELSE IF lastBucketMs = <<bucketOf(c)>>
              THEN [@ EXCEPT !.pc = "mgetAvg", !.lastBucketMs = lastBucketMs,
                             !.path = "cached"]
              ELSE [@ EXCEPT !.pc = "mgetSamples", !.lastBucketMs = lastBucketMs,
                             !.path = "recompute"]]
    /\ UNCHANGED <<poll, bucketIO, titles, setIO, chunkIO, apiIO, ui, kv, hasPipeline, ncalls, prev, upsertIO, avgIO, codecIO, avgFrom>>

\* MgetAverages that also writes the averages it returns back to the store.
MgetAveragesWriteBack(c) ==
    /\ call[c].pc = "mgetAvg"
    /\ LET routeTags == routeTagsIn(c)
           keys == [i \in 1..Len(routeTags) |-> avgKey(routeTags[i])]
           values == [i \in 1..Len(keys) |-> kv[keys[i]]]
           out == cachedOut(routeTags, values)
       IN /\ call' = [call EXCEPT ![c] =
                 [@ EXCEPT !.pc = "returned", !.readKeys = keys, !.out = out]]
          /\ kv' = [k \in Keys |->
                 IF \E tag \in Range(routeTags) : k = avgKey(tag)
                 THEN StringOf(out[k[2]]) ELSE kv[k]]
    /\ UNCHANGED <<poll, bucketIO, titles, setIO, chunkIO, apiIO, ui, hasPipeline, ncalls, prev, upsertIO, avgIO, codecIO, avgFrom>>

\* mgetChunked(client, routeTags.map(avgKey)) returns; refresh returns.
MgetAverages(c) ==
    /\ call[c].pc = "mgetAvg"
    /\ LET routeTags == routeTagsIn(c)
           keys == [i \in 1..Len(routeTags) |-> avgKey(routeTags[i])]
           values == [i \in 1..Len(keys) |-> kv[keys[i]]]
       IN call' = [call EXCEPT ![c] =
              [@ EXCEPT !.pc = "returned", !.readKeys = keys,
                        !.out = cachedOut(routeTags, values)]]
    /\ UNCHANGED <<poll, bucketIO, titles, setIO, chunkIO, apiIO, ui, kv, hasPipeline, ncalls, prev, upsertIO, avgIO, codecIO, avgFrom>>

\* mgetChunked(client, routeTags.map(sampleKey)) returns; the loop stages
\* kvSets and out.
MgetSamples(c) ==
    /\ call[c].pc = "mgetSamples"
    /\ LET routeTags == routeTagsIn(c)
           keys == [i \in 1..Len(routeTags) |-> sampleKey(routeTags[i])]
           existing == [i \in 1..Len(keys) |-> kv[keys[i]]]
           kvSets == stagedSets(routeTags, 1, call[c].liveRoutes, existing,
                                call[c].nowMs)
       IN call' = [call EXCEPT ![c] =
              [@ EXCEPT !.pc = IF Len(kvSets) = 0 THEN "setMarker" ELSE "setMany",
                        !.readKeys = keys,
                        !.existing = existing,
                        !.kvSets = kvSets,
                        !.pending = 1..Len(kvSets),
                        !.out = recomputeOut(routeTags, call[c].liveRoutes,
                                             existing, call[c].nowMs)]]
    /\ UNCHANGED <<poll, bucketIO, titles, setIO, chunkIO, apiIO, ui, kv, hasPipeline, ncalls, prev, upsertIO, avgIO, codecIO, avgFrom>>

\* avgFrom once the sets have landed, written by a refresh of bucketMs.
avgFromAfter(sets, bucketMs) ==
    [tag \in Routes |->
        IF \E i \in 1..Len(sets) : sets[i][1] = avgKey(tag)
        THEN <<bucketMs>> ELSE avgFrom[tag]]

\* setManyChunked with a pipeline: p.exec() applies the sets in order.
ExecPipeline(c) ==
    /\ call[c].pc = "setMany"
    /\ hasPipeline
    /\ kv' = applySets(kv, call[c].kvSets)
    /\ avgFrom' = avgFromAfter(call[c].kvSets, bucketOf(c))
    /\ call' = [call EXCEPT ![c] = [@ EXCEPT !.pc = "setMarker", !.pending = {}]]
    /\ UNCHANGED <<poll, bucketIO, titles, setIO, chunkIO, apiIO, ui, hasPipeline, ncalls, prev, upsertIO, avgIO, codecIO>>

\* The sets among kvSets whose index is in landed, applied in order.
landedSets(kvSets, landed) ==
    SelectSeq(kvSets, LAMBDA kvSet :
        \E i \in landed : kvSets[i] = kvSet)

\* SetAll under Promise.allSettled: refresh goes on when a set has raised.
SetAllSettled(c, landed) ==
    /\ call[c].pc = "setMany"
    /\ ~hasPipeline
    /\ landed \subseteq call[c].pending
    /\ kv' = applySets(kv, landedSets(call[c].kvSets, landed))
    /\ call' = [call EXCEPT ![c] = [@ EXCEPT !.pending = {}, !.pc = "setMarker"]]
    /\ avgFrom' = avgFromAfter(landedSets(call[c].kvSets, landed), bucketOf(c))
    /\ UNCHANGED <<poll, bucketIO, titles, setIO, chunkIO, apiIO, ui, hasPipeline, ncalls, prev, upsertIO, avgIO, codecIO>>

\* setManyChunked without a pipeline: Promise.all of one client.set per
\* entry.  Each set lands or raises on its own; the sets that were in flight
\* when one raises still land.  Promise.all resolves when all have landed
\* and rejects when one raises.
SetAll(c, landed) ==
    /\ call[c].pc = "setMany"
    /\ ~hasPipeline
    /\ landed \subseteq call[c].pending
    /\ kv' = applySets(kv, landedSets(call[c].kvSets, landed))
    /\ call' = [call EXCEPT ![c] =
           [@ EXCEPT !.pending = {},
                     !.pc = IF landed = call[c].pending
                            THEN "setMarker" ELSE "rejected",
                     !.error = IF landed = call[c].pending
                               THEN "none" ELSE "set"]]
    /\ avgFrom' = avgFromAfter(landedSets(call[c].kvSets, landed), bucketOf(c))
    /\ UNCHANGED <<poll, bucketIO, titles, setIO, chunkIO, apiIO, ui, hasPipeline, ncalls, prev, upsertIO, avgIO, codecIO>>

\* SetMarker that writes String(nowMs).
SetMarkerAtNow(c) ==
    /\ call[c].pc = "setMarker"
    /\ kv' = [kv EXCEPT ![KV_LAST_BUCKET_KEY] = NumberString(call[c].nowMs)]
    /\ call' = [call EXCEPT ![c] = [@ EXCEPT !.pc = "returned"]]
    /\ UNCHANGED <<poll, bucketIO, titles, setIO, chunkIO, apiIO, ui, hasPipeline, ncalls, prev, upsertIO, avgIO, codecIO, avgFrom>>

\* SetMarker that writes the end of the bucket.
SetMarkerNextBucket(c) ==
    /\ call[c].pc = "setMarker"
    /\ kv' = [kv EXCEPT ![KV_LAST_BUCKET_KEY] =
                  NumberString(bucketOf(c) + SAMPLE_INTERVAL_MS)]
    /\ call' = [call EXCEPT ![c] = [@ EXCEPT !.pc = "returned"]]
    /\ UNCHANGED <<poll, bucketIO, titles, setIO, chunkIO, apiIO, ui, hasPipeline, ncalls, prev, upsertIO, avgIO, codecIO, avgFrom>>

\* client.set(KV_LAST_BUCKET_KEY, String(bucketMs)) returns; refresh returns.
SetMarker(c) ==
    /\ call[c].pc = "setMarker"
    /\ kv' = [kv EXCEPT ![KV_LAST_BUCKET_KEY] = NumberString(bucketOf(c))]
    /\ call' = [call EXCEPT ![c] = [@ EXCEPT !.pc = "returned"]]
    /\ UNCHANGED <<poll, bucketIO, titles, setIO, chunkIO, apiIO, ui, hasPipeline, ncalls, prev, upsertIO, avgIO, codecIO, avgFrom>>

\* StoreError under a try/catch that turns the error into an all-null map.
StoreErrorCaught(c) ==
    /\ \/ call[c].pc \in {"get", "mgetAvg", "mgetSamples", "setMarker"}
       \/ call[c].pc = "setMany" /\ hasPipeline
    /\ call' = [call EXCEPT ![c] =
           [@ EXCEPT !.pc = "returned", !.error = call[c].pc, !.pending = {},
                     !.out = [tag \in Range(routeTagsIn(c)) |-> Null]]]
    /\ UNCHANGED <<poll, bucketIO, titles, setIO, chunkIO, apiIO, ui, kv, hasPipeline, ncalls, prev, upsertIO, avgIO, codecIO, avgFrom>>

\* get, mget, exec or the marker's set raises: nothing lands, and the error
\* leaves refresh, which catches nothing.
StoreError(c) ==
    /\ \/ call[c].pc \in {"get", "mgetAvg", "mgetSamples", "setMarker"}
       \/ call[c].pc = "setMany" /\ hasPipeline
    /\ call' = [call EXCEPT ![c] =
           [@ EXCEPT !.pc = "rejected", !.error = call[c].pc, !.pending = {}]]
    /\ UNCHANGED <<poll, bucketIO, titles, setIO, chunkIO, apiIO, ui, kv, hasPipeline, ncalls, prev, upsertIO, avgIO, codecIO, avgFrom>>

\* The invocation is over and none of its requests is in flight.
Finish(c) ==
    /\ call[c].pc \in {"returned", "rejected"}
    /\ call[c].pending = {}
    /\ prev' = [pc |-> call[c].pc, liveRoutes |-> call[c].liveRoutes,
                nowMs |-> call[c].nowMs, out |-> call[c].out,
                path |-> call[c].path, error |-> call[c].error]
    /\ call' = [call EXCEPT ![c] = IdleCall]
    /\ UNCHANGED <<poll, bucketIO, titles, setIO, chunkIO, apiIO, ui, kv, hasPipeline, ncalls, upsertIO, avgIO, codecIO, avgFrom>>

NoIO == [op |-> "none"]

Init ==
    /\ kv \in {EmptyStore, LegacyStore}
    /\ hasPipeline \in BOOLEAN
    /\ call = [c \in Calls |-> IdleCall]
    /\ ncalls = 0
    /\ prev = NoPrev
    /\ upsertIO = NoIO
    /\ avgIO = NoIO
    /\ codecIO = NoIO
    /\ avgFrom = IF kv = LegacyStore THEN LegacyAvgFrom ELSE NoAvgFrom
    /\ chunkIO = NoIO
    /\ apiIO = NoIO
    /\ ui = NoIO
    /\ setIO = NoIO
    /\ bucketIO = NoIO
    /\ titles = NoIO
    /\ poll = NoIO

\* Invocations one after the other: "c1" starts when nothing is running.
Next ==
    \/ \E liveRoutes \in LiveBatches, nowMs \in Times :
           /\ \A c \in Calls : call[c].pc = "idle"
           /\ Start("c1", liveRoutes, nowMs)
    \/ \E c \in Calls : GetMarker(c)
    \/ \E c \in Calls : MgetAverages(c)
    \/ \E c \in Calls : MgetSamples(c)
    \/ \E c \in Calls : ExecPipeline(c)
    \/ \E c \in Calls : \E landed \in SUBSET call[c].pending : SetAll(c, landed)
    \/ \E c \in Calls : SetMarker(c)
    \/ \E c \in Calls : StoreError(c)
    \/ \E c \in Calls : Finish(c)

Spec == Init /\ [][Next]_vars

\* Overlapping invocations: the platform runs refresh calls concurrently, and
\* they share nothing but the store.  Every await is a point where the other
\* invocation may run.
ConcBatches ==
    { <<Reading("R1", 200), Reading("R2", 405)>> }

ConcTimes == {10000, SAMPLE_INTERVAL_MS}

NextConc ==
    \/ \E c \in Calls, liveRoutes \in ConcBatches, nowMs \in ConcTimes :
           Start(c, liveRoutes, nowMs)
    \/ \E c \in Calls : GetMarker(c)
    \/ \E c \in Calls : MgetAverages(c)
    \/ \E c \in Calls : MgetSamples(c)
    \/ \E c \in Calls : ExecPipeline(c)
    \/ \E c \in Calls : \E landed \in SUBSET call[c].pending : SetAll(c, landed)
    \/ \E c \in Calls : SetMarker(c)
    \/ \E c \in Calls : StoreError(c)
    \/ \E c \in Calls : Finish(c)

SpecConc == Init /\ [][NextConc]_vars

\* Invocations one after the other whose readings carry a speed that the
\* caller should have rejected: NaN, Infinity or a negative number.
OddBatches ==
    { <<Reading("R1", NaN)>>,
      <<Reading("R1", Infinity)>>,
      <<Reading("R1", -50)>>,
      <<Reading("R1", 200), Reading("R2", NaN)>> }

OddTimes == {10000, SAMPLE_INTERVAL_MS + 10000}

NextOdd ==
    \/ \E liveRoutes \in OddBatches, nowMs \in OddTimes :
           /\ \A c \in Calls : call[c].pc = "idle"
           /\ Start("c1", liveRoutes, nowMs)
    \/ \E c \in Calls : GetMarker(c)
    \/ \E c \in Calls : MgetAverages(c)
    \/ \E c \in Calls : MgetSamples(c)
    \/ \E c \in Calls : ExecPipeline(c)
    \/ \E c \in Calls : \E landed \in SUBSET call[c].pending : SetAll(c, landed)
    \/ \E c \in Calls : SetMarker(c)
    \/ \E c \in Calls : StoreError(c)
    \/ \E c \in Calls : Finish(c)

SpecOdd == Init /\ [][NextOdd]_vars

(***************************************************************************)
(* Claims about refresh (Spec: invocations one after the other)            *)
(***************************************************************************)
Ascending(s) == \A i \in 1..(Len(s) - 1) : s[i].t <= s[i + 1].t

NoRepeatedT(s) == \A i, j \in 1..Len(s) : i # j => s[i].t # s[j].t

routesOf(c) == Range(routeTagsIn(c))

liveOf(c, tag) == liveByTag(call[c].liveRoutes, tag)[1]

storedHistory(store, tag) == parseSamples(store[sampleKey(tag)])

Recomputed(c) == call[c].pc = "returned" /\ call[c].path = "recompute"

\* C1: after a recompute refresh that ran alone and whose store calls all
\* succeeded, for every route r of the readings samples:r holds the upsert of
\* r's previous stored history with the sample (bucket(now), r's reading) and
\* cutoff now - windowMs, avg:r holds the string of the value returned for
\* r, and last-bucket holds bucket(now).
C1_RecomputePersists ==
    \A c \in Calls : Recomputed(c) =>
        /\ \A tag \in routesOf(c) :
               /\ kv[sampleKey(tag)] =
                      serializeSamples(
                          trimAndUpsert(storedHistory(call[c].kv0, tag),
                                        call[c].nowMs - WINDOW_MS,
                                        Sample(bucketOf(c), liveOf(c, tag))))
               /\ kv[avgKey(tag)] = StringOf(call[c].out[tag])
        /\ kv[KV_LAST_BUCKET_KEY] = NumberString(bucketOf(c))

\* A recompute over two routes, one of them with a stored history, inside a
\* bucket (now is not the bucket id).
C1_Witness ==
    \E c \in Calls :
        /\ Recomputed(c)
        /\ Cardinality(routesOf(c)) = 2
        /\ \E tag \in routesOf(c) : storedHistory(call[c].kv0, tag) # <<>>
        /\ call[c].nowMs # bucketOf(c)

SameAsPrev(c) ==
    /\ prev.pc = "returned"
    /\ call[c].pc = "returned"
    /\ prev.liveRoutes = call[c].liveRoutes
    /\ prev.nowMs = call[c].nowMs

\* C2 as claimed: two refresh calls in sequence with the same readings and
\* the same now, all store calls succeeding, return the same map, and the
\* second takes the cached-average path.
C2_AsClaimed ==
    \A c \in Calls : SameAsPrev(c) =>
        /\ call[c].out = prev.out
        /\ call[c].path = "cached"

\* C2 amended: they return the same map; the second takes the cached-average
\* path when the batch holds a reading, and with an empty batch both return
\* the empty map before either path.
C2_Idempotent ==
    \A c \in Calls : SameAsPrev(c) =>
        /\ call[c].out = prev.out
        /\ call[c].liveRoutes # <<>> => call[c].path = "cached"
        /\ call[c].liveRoutes = <<>> => call[c].path = "empty" /\ call[c].out = <<>>

C2_Witness ==
    \E c \in Calls :
        /\ SameAsPrev(c)
        /\ prev.path = "recompute"
        /\ call[c].path = "cached"
        /\ Cardinality(routesOf(c)) = 2
        /\ \E tag \in routesOf(c) : call[c].out[tag] # Null

AllNull(c) == \A tag \in routesOf(c) : call[c].out[tag] = Null

expectedOut(c, tag) ==
    roundedAvgOf(nextSamplesOf(call[c].kv0[sampleKey(tag)], liveOf(c, tag),
                               call[c].nowMs),
                 call[c].nowMs)

samplesInBucket(tag, bucketMs) ==
    LET h == storedHistory(kv, tag)
    IN {i \in 1..Len(h) : toBucketMs(h[i].t) = bucketMs}

OnePerBucket ==
    \A tag \in Routes :
        LET h == storedHistory(kv, tag)
        IN /\ NoRepeatedT(h)
           /\ \A i \in 1..Len(h) : h[i].t = toBucketMs(h[i].t)

\* Two refreshes in sequence, both returned, 10000 ms apart in one bucket.
ScenarioA(c) ==
    /\ prev.pc = "returned"
    /\ call[c].pc = "returned"
    /\ call[c].nowMs = prev.nowMs + 10000
    /\ bucketOf(c) = toBucketMs(prev.nowMs)

\* C5 as claimed: a stored history holds at most one sample per bucket id,
\* and two readings of a route at t0 and t0 + 10000 inside one bucket leave
\* exactly one stored sample, stamped with the bucket id.
C5_AsClaimed ==
    /\ OnePerBucket
    /\ \A c \in Calls : ScenarioA(c) =>
           \A tag \in routesOf(c) \cap Range(routeTagsOf(prev.liveRoutes)) :
               Cardinality(samplesInBucket(tag, bucketOf(c))) = 1

\* C5 amended: a stored history holds at most one sample per bucket id, each
\* stamped with its bucket id; the two readings leave exactly one stored
\* sample for the bucket when the first refresh took the recompute path (it
\* holds the first reading), and none are added when the marker already
\* recorded the bucket, both calls taking the cached-average path.
C5_OnePerBucket ==
    /\ OnePerBucket
    /\ \A c \in Calls : ScenarioA(c) =>
           \A tag \in routesOf(c) \cap Range(routeTagsOf(prev.liveRoutes)) :
               /\ prev.path = "recompute" =>
                      /\ Cardinality(samplesInBucket(tag, bucketOf(c))) = 1
                      /\ \E i \in samplesInBucket(tag, bucketOf(c)) :
                             storedHistory(kv, tag)[i] =
                                 Sample(bucketOf(c),
                                        liveByTag(prev.liveRoutes, tag)[1])
               /\ prev.path = "cached" =>
                      /\ call[c].path = "cached"
                      /\ kv = call[c].kv0

C5_Witness ==
    \E c \in Calls :
        /\ ScenarioA(c)
        /\ prev.path = "recompute"
        /\ \E tag \in routesOf(c) \cap Range(routeTagsOf(prev.liveRoutes)) :
               Cardinality(samplesInBucket(tag, bucketOf(c))) = 1

\* C10: when the stored marker equals bucket(now), refresh reads only the
\* avg keys of the requested routes and writes nothing: every samples value,
\* every avg value and last-bucket are as they were when it was called.
C10_CachedPathFrame ==
    \A c \in Calls : call[c].path = "cached" =>
        /\ kv = call[c].kv0
        /\ call[c].lastBucketMs = <<bucketOf(c)>>
        /\ call[c].pc = "returned" =>
               call[c].readKeys =
                   [i \in 1..Len(routeTagsIn(c)) |-> avgKey(routeTagsIn(c)[i])]

C10_Witness ==
    \E c \in Calls :
        /\ call[c].path = "cached"
        /\ call[c].pc = "returned"
        /\ \E tag \in routesOf(c) : call[c].out[tag] # Null
        /\ \E tag \in Routes : kv[sampleKey(tag)] # Absent

stagedLanded(c) ==
    \A i \in 1..Len(call[c].kvSets) :
        kv[call[c].kvSets[i][1]] = call[c].kvSets[i][2]

WriteFailed(error) == error \in {"set", "setMany"}

\* C11: a refresh writes last-bucket = b only after every staged history and
\* average write of the call has completed; when a staged write fails the
\* marker is not advanced to b, so the next refresh in bucket b takes the
\* recompute path again and rewrites the staged values.
C11_MarkerAfterWrites ==
    \A c \in Calls :
        /\ (call[c].pc = "setMarker" \/ Recomputed(c)) => stagedLanded(c)
        /\ WriteFailed(call[c].error) =>
               /\ kv[KV_LAST_BUCKET_KEY] = call[c].kv0[KV_LAST_BUCKET_KEY]
               /\ kv[KV_LAST_BUCKET_KEY] # NumberString(bucketOf(c))
        /\ (/\ prev.pc = "rejected"
            /\ WriteFailed(prev.error)
            /\ bucketOf(c) = toBucketMs(prev.nowMs)
            /\ call[c].liveRoutes # <<>>
            /\ call[c].path # "none")
           => /\ call[c].path = "recompute"
              /\ call[c].pc = "returned" => stagedLanded(c)

\* One set of Promise.all failed after another had landed; the next refresh
\* of the same bucket and readings recomputed and returned.
C11_Witness ==
    \E c \in Calls :
        /\ prev.pc = "rejected"
        /\ prev.error = "set"
        /\ bucketOf(c) = toBucketMs(prev.nowMs)
        /\ call[c].liveRoutes = prev.liveRoutes
        /\ call[c].kv0 # EmptyStore
        /\ Recomputed(c)

ServedFromCache(c) == call[c].pc = "returned" /\ call[c].path = "cached"

\* C13 as claimed: whenever the stored marker equals bucket b, every cached
\* average the cached-average path returns for a requested route was computed
\* for that route by a refresh of bucket b, also when successive refreshes
\* request different sets of routes.
C13_AsClaimed ==
    \A c \in Calls : ServedFromCache(c) =>
        \A tag \in routesOf(c) :
            call[c].out[tag] # Null => avgFrom[tag] = <<bucketOf(c)>>

\* C13 amended: the cached-average path returns for each requested route the
\* value stored under avg:<route>, null when nothing was ever written there:
\* the average of the last refresh that wrote the route's average, whatever
\* its bucket.
C13_CachedValue ==
    \A c \in Calls : ServedFromCache(c) =>
        \A tag \in routesOf(c) :
            /\ call[c].out[tag] = asNumber(kv[avgKey(tag)])
            /\ avgFrom[tag] = Null => call[c].out[tag] = Null

\* Two routes served from the cache, one with an average written in an
\* earlier bucket than the marker's.
C13_Witness ==
    \E c \in Calls :
        /\ ServedFromCache(c)
        /\ Cardinality(routesOf(c)) = 2
        /\ \E tag \in routesOf(c) :
               /\ call[c].out[tag] # Null
               /\ avgFrom[tag] # <<bucketOf(c)>>
        /\ \E tag \in routesOf(c) : avgFrom[tag] = <<bucketOf(c)>>

\* The batch positions that hold a reading of the route.
readingsOf(liveRoutes, tag) ==
    {i \in 1..Len(liveRoutes) : liveRoutes[i].routeTag = tag}

\* C17: when the batch holds several readings of one route, refresh requests
\* the route once, and the sample it upserts carries the speed of the last
\* such reading in batch order.
C17_LastReadingWins ==
    \A c \in Calls : Recomputed(c) =>
        /\ Len(call[c].readKeys) = Cardinality(routesOf(c))
        /\ \A tag \in routesOf(c) :
               LET idx == readingsOf(call[c].liveRoutes, tag)
                   last == CHOOSE i \in idx : \A j \in idx : j <= i
                   h == storedHistory(kv, tag)
               IN /\ Cardinality({i \in 1..Len(call[c].readKeys) :
                                      call[c].readKeys[i] = sampleKey(tag)}) = 1
                  /\ \E i \in 1..Len(h) :
                         h[i] = Sample(bucketOf(c),
                                       call[c].liveRoutes[last].liveSpeedKmh)

\* Two readings of one route with different speeds.
C17_Witness ==
    \E c \in Calls :
        /\ Recomputed(c)
        /\ \E tag \in routesOf(c) :
               \E i, j \in readingsOf(call[c].liveRoutes, tag) :
                   /\ i < j
                   /\ call[c].liveRoutes[i].liveSpeedKmh
                          # call[c].liveRoutes[j].liveSpeedKmh

(***************************************************************************)
(* Claims about overlapping refresh invocations (SpecConc)                 *)
(***************************************************************************)
markerOf(store) == asNumber(store[KV_LAST_BUCKET_KEY])

\* C12 as claimed: no refresh call, whatever its now and however it
\* interleaves with other calls, replaces the stored marker with a smaller
\* bucket id.
C12_AsClaimed ==
    [][(markerOf(kv) # Null /\ markerOf(kv') # Null)
           => markerOf(kv')[1] >= markerOf(kv)[1]]_vars

\* C12 amended: the marker changes only when a recompute refresh, its staged
\* writes done, sets it to the bucket of its own now, whatever the stored
\* marker is by then; a refresh of an earlier bucket that writes after a
\* later bucket was recorded makes it smaller.
C12_MarkerWrites ==
    [][kv'[KV_LAST_BUCKET_KEY] # kv[KV_LAST_BUCKET_KEY] =>
           \E c \in Calls :
               /\ call[c].pc = "setMarker"
               /\ call[c].path = "recompute"
               /\ call'[c].pc = "returned"
               /\ kv'[KV_LAST_BUCKET_KEY] = NumberString(bucketOf(c))]_vars

\* A refresh that read a marker later than its own bucket has written its
\* bucket over it.
C12_Witness ==
    \E c \in Calls :
        /\ Recomputed(c)
        /\ call[c].lastBucketMs # Null
        /\ call[c].lastBucketMs[1] > bucketOf(c)
        /\ markerOf(kv) = <<bucketOf(c)>>

\* The invocation whose staged sets land in this step.
Writes(c) == call[c].pc = "setMany" /\ call'[c].pc # "setMany"

\* The samples of the route that this step removes from the store.
removedSamples(tag) ==
    Range(storedHistory(kv, tag)) \ Range(storedHistory(kv', tag))

\* What the invocation read under samples:<tag>.
existingOf(c, tag) ==
    LET routeTags == routeTagsIn(c)
        i == CHOOSE k \in 1..Len(routeTags) : routeTags[k] = tag
    IN parseSamples(call[c].existing[i])

\* C14 as claimed: a stored sample leaves its route's history only by being
\* older than the window, by cap eviction, or by replacement with a reading
\* of the same bucket; no interleaving of two refreshes removes an in-window
\* sample written by the other.
C14_AsClaimed ==
    [][\A tag \in Routes : \A s \in removedSamples(tag) :
           \E c \in Calls :
               /\ Writes(c)
               /\ tag \in routesOf(c)
               /\ \/ s.t < call[c].nowMs - WINDOW_MS
                  \/ s.t = bucketOf(c)
                  \/ Len(storedHistory(kv', tag)) = MAX_SAMPLES_PER_ROUTE]_vars

\* C14 amended: a refresh replaces the stored history by the upsert of the
\* history it read; a stored sample leaves by being older than the writer's
\* window, by cap eviction, by replacement with the writer's reading of the
\* same bucket, or because it was stored after the writer read the history
\* (the write of an overlapping refresh is lost).
C14_SampleRemoval ==
    [][\A tag \in Routes :
         \/ kv'[sampleKey(tag)] = kv[sampleKey(tag)]
         \/ \A s \in removedSamples(tag) :
           \E c \in Calls :
               /\ Writes(c)
               /\ tag \in routesOf(c)
               /\ \/ s.t < call[c].nowMs - WINDOW_MS
                  \/ s.t = bucketOf(c)
                  \/ Len(storedHistory(kv', tag)) = MAX_SAMPLES_PER_ROUTE
                  \/ s \notin Range(existingOf(c, tag))]_vars

Landed(c) == call[c].pc \in {"setMarker", "returned"} /\ call[c].path = "recompute"

\* Two overlapping refreshes of different buckets have both written a
\* route's history; the sample of one, inside the other's window, is gone.
C14_Witness ==
    \E c, d \in Calls :
        /\ Landed(c) /\ Landed(d)
        /\ bucketOf(c) # bucketOf(d)
        /\ bucketOf(d) >= call[c].nowMs - WINDOW_MS
        /\ \E tag \in routesOf(c) \cap routesOf(d) :
               /\ Sample(bucketOf(c), liveOf(c, tag))
                      \in Range(storedHistory(kv, tag))
               /\ Sample(bucketOf(d), liveOf(d, tag))
                      \notin Range(storedHistory(kv, tag))

\* The store and the result of one refresh that runs alone from the store.
aloneStore(store, liveRoutes, nowMs) ==
    LET routeTags == routeTagsOf(liveRoutes)
        existing == [i \in 1..Len(routeTags) |-> store[sampleKey(routeTags[i])]]
        sets == stagedSets(routeTags, 1, liveRoutes, existing, nowMs)
    IN [applySets(store, sets) EXCEPT
           ![KV_LAST_BUCKET_KEY] = NumberString(toBucketMs(nowMs))]

aloneOut(store, liveRoutes, nowMs) ==
    LET routeTags == routeTagsOf(liveRoutes)
        existing == [i \in 1..Len(routeTags) |-> store[sampleKey(routeTags[i])]]
    IN recomputeOut(routeTags, liveRoutes, existing, nowMs)

\* The only two invocations so far had the same arguments, both recomputed
\* and both have returned.
Twins ==
    /\ ncalls = 2
    /\ \A c \in Calls : Recomputed(c)
    /\ \A c, d \in Calls :
           /\ call[c].liveRoutes = call[d].liveRoutes
           /\ call[c].nowMs = call[d].nowMs

\* C15: two concurrent refresh calls with the same readings and the same
\* now that both see a stale marker end, in every interleaving of their
\* store calls, in the store that one such refresh run alone leaves, and
\* both return the same result map.
C15_ConcurrentSameBucket ==
    Twins =>
        \E c \in Calls :
            /\ call[c].kv0 \in {EmptyStore, LegacyStore}
            /\ kv = aloneStore(call[c].kv0, call[c].liveRoutes, call[c].nowMs)
            /\ \A d \in Calls :
                   call[d].out = aloneOut(call[c].kv0, call[c].liveRoutes,
                                          call[c].nowMs)

\* Both started from the same store, over two routes, one with a history.
C15_Witness ==
    /\ Twins
    /\ \A c, d \in Calls : call[c].kv0 = call[d].kv0 /\ call[c].existing = call[d].existing
    /\ \E c \in Calls :
           /\ Cardinality(routesOf(c)) = 2
           /\ call[c].kv0 = LegacyStore

(***************************************************************************)
(* Claims about readings that are no speed (SpecOdd)                       *)
(***************************************************************************)
FiniteNonNegative(x) == IsFinite(x) /\ x >= 0

\* No stored history entry holds a negative speed, and no stored average is
\* a negative number or the text of a non-finite one.
NothingOddStored ==
    \A tag \in Routes :
        /\ \A i \in 1..Len(kv[sampleKey(tag)].items) :
               IsFinite(kv[sampleKey(tag)].items[i].v)
                   => kv[sampleKey(tag)].items[i].v >= 0
        /\ kv[avgKey(tag)].kind = "number" => kv[avgKey(tag)].n >= 0
        /\ kv[avgKey(tag)].kind = "text" => kv[avgKey(tag)] = TextNull

\* C16 as claimed: when a reading with a negative or non-finite speed
\* reaches refresh, refresh persists that value in no stored history and no
\* cached average, and returns for the route null or a finite non-negative
\* number.
C16_AsClaimed ==
    /\ NothingOddStored
    /\ \A c \in Calls : call[c].pc = "returned" =>
           \A tag \in routesOf(c) :
               \/ call[c].out[tag] = Null
               \/ FiniteNonNegative(call[c].out[tag][1])

(***************************************************************************)
(* trimAndUpsert and compute24hAvgKmh applied to arguments of their own    *)
(***************************************************************************)
MaxHistoryLen == 2

SeqsUpTo(S, n) == UNION {[1..k -> S] : k \in 0..n}

\* Arguments of trimAndUpsert: short histories, sorted or not, with or
\* without repeated timestamps ...
UpsertSamples ==
    {Sample(t, v) : t \in {0, SAMPLE_INTERVAL_MS, 2 * SAMPLE_INTERVAL_MS},
                    v \in {100, 200}}

UpsertCutoffs == {-1000, SAMPLE_INTERVAL_MS, SAMPLE_INTERVAL_MS + 1}

\* ... and a history longer than the cap: one sample a second, newest first.
LongHistory ==
    [i \in 1..(MAX_SAMPLES_PER_ROUTE + 1) |->
        Sample((MAX_SAMPLES_PER_ROUTE + 2 - i) * 1000, 100)]

\* ... and histories as refresh meets them after more than a day: one sample
\* for every bucket from 0 on, or as many samples spread over two buckets,
\* with the cutoff and the sample refresh derives from nowMs.
FullHistoryLen == Ceil(WINDOW_MS, SAMPLE_INTERVAL_MS) + 3

FullHistory ==
    [i \in 1..FullHistoryLen |-> Sample((i - 1) * SAMPLE_INTERVAL_MS, 100)]

RepeatedHistory ==
    [i \in 1..FullHistoryLen |->
        Sample((3 + (i % 2)) * SAMPLE_INTERVAL_MS, 100)]

FullWindowNows ==
    {WINDOW_MS + 2 * SAMPLE_INTERVAL_MS, WINDOW_MS + 2 * SAMPLE_INTERVAL_MS + 30000}

UpsertArgs ==
    [op : {"args"}, samples : SeqsUpTo(UpsertSamples, MaxHistoryLen),
     cutoffMs : UpsertCutoffs, sample : UpsertSamples]
    \cup
    [op : {"args"}, samples : {LongHistory}, cutoffMs : {0},
     sample : {Sample(0, 200), Sample(2000000, 200)}]
    \cup
    {[op |-> "args", samples |-> h, cutoffMs |-> nowMs - WINDOW_MS,
      sample |-> Sample(toBucketMs(nowMs), 200)] :
        h \in {FullHistory, RepeatedHistory}, nowMs \in FullWindowNows}

ApplyTrimAndUpsert ==
    /\ upsertIO.op = "args"
    /\ upsertIO' = [op |-> "result", samples |-> upsertIO.samples,
                    cutoffMs |-> upsertIO.cutoffMs, sample |-> upsertIO.sample,
                    result |-> trimAndUpsert(upsertIO.samples, upsertIO.cutoffMs,
                                             upsertIO.sample)]
    /\ UNCHANGED <<poll, bucketIO, titles, setIO, chunkIO, apiIO, ui, kv, hasPipeline, call, ncalls, prev, avgIO, codecIO, avgFrom>>

InitUpsert ==
    /\ kv = EmptyStore
    /\ hasPipeline = TRUE
    /\ call = [c \in Calls |-> IdleCall]
    /\ ncalls = 0
    /\ prev = NoPrev
    /\ upsertIO \in UpsertArgs
    /\ avgIO = NoIO
    /\ codecIO = NoIO
    /\ avgFrom = NoAvgFrom
    /\ chunkIO = NoIO
    /\ apiIO = NoIO
    /\ ui = NoIO
    /\ setIO = NoIO
    /\ bucketIO = NoIO
    /\ titles = NoIO
    /\ poll = NoIO

SpecUpsert == InitUpsert /\ [][ApplyTrimAndUpsert]_vars

\* Arguments of compute24hAvgKmh; the cutoff is nowMs - WINDOW_MS, as in
\* refresh.
AggSamples ==
    {Sample(t, v) : t \in {0, 30000, SAMPLE_INTERVAL_MS, 3600000,
                            WINDOW_MS + 3600000},
                    v \in {200, 400}}

AggNows == {0, 30000, 3600000, WINDOW_MS + SAMPLE_INTERVAL_MS,
            WINDOW_MS + SAMPLE_INTERVAL_MS + 30000}

AggArgs ==
    {[op |-> "args", samples |-> h, nowMs |-> now, cutoffMs |-> now - WINDOW_MS] :
        h \in SeqsUpTo(AggSamples, MaxHistoryLen), now \in AggNows}

\* What the loop credits to each sample of the sorted history.
creditedOf(sorted, nowMs, cutoffMs) ==
    [i \in 1..Len(sorted) |->
        [t |-> sorted[i].t,
         start |-> creditStart(sorted, i, cutoffMs),
         end |-> creditEnd(sorted, i, nowMs),
         durationMs |-> durationMs(sorted, i, nowMs, cutoffMs)]]

ApplyCompute24hAvgKmh ==
    /\ avgIO.op = "args"
    /\ avgIO' = [op |-> "result", samples |-> avgIO.samples,
                 nowMs |-> avgIO.nowMs, cutoffMs |-> avgIO.cutoffMs,
                 credited |-> creditedOf(SortByT(avgIO.samples), avgIO.nowMs,
                                         avgIO.cutoffMs),
                 weightedSum |-> weightedSum(SortByT(avgIO.samples), 1, avgIO.nowMs,
                                             avgIO.cutoffMs),
                 totalWeight |-> totalWeight(SortByT(avgIO.samples), 1, avgIO.nowMs,
                                             avgIO.cutoffMs),
                 result |-> compute24hAvgKmh(avgIO.samples, avgIO.nowMs,
                                             avgIO.cutoffMs)]
    /\ UNCHANGED <<poll, bucketIO, titles, setIO, chunkIO, apiIO, ui, kv, hasPipeline, call, ncalls, prev, upsertIO, codecIO, avgFrom>>

InitAgg ==
    /\ kv = EmptyStore
    /\ hasPipeline = TRUE
    /\ call = [c \in Calls |-> IdleCall]
    /\ ncalls = 0
    /\ prev = NoPrev
    /\ upsertIO = NoIO
    /\ avgIO \in AggArgs
    /\ codecIO = NoIO
    /\ avgFrom = NoAvgFrom
    /\ chunkIO = NoIO
    /\ apiIO = NoIO
    /\ ui = NoIO
    /\ setIO = NoIO
    /\ bucketIO = NoIO
    /\ titles = NoIO
    /\ poll = NoIO

SpecAgg == InitAgg /\ [][ApplyCompute24hAvgKmh]_vars

\* Arguments of parseSamples: the values that are no array, and the arrays
\* of up to MaxHistoryLen entries, well formed or not.
RawItems ==
    [enc : {"tuple", "object", "other"},
     t : {0, SAMPLE_INTERVAL_MS, JsonNull, EmptyString},
     v : {100, JsonNull}]

RawValues ==
    {Absent, TextEmpty, TextNull, NumberString(123), JsonObject}
    \cup {[kind |-> "json", n |-> 0, items |-> items] :
              items \in SeqsUpTo(RawItems, MaxHistoryLen)}

\* Histories to encode: finite speeds, a negative one and NaN.
CodecSamples ==
    {Sample(t, v) : t \in {0, SAMPLE_INTERVAL_MS}, v \in {100, -50, NaN}}

\* Values mget may return for the avg keys of two routes.
AvgValues ==
    {Absent, TextNull, TextEmpty, NumberString(123), NumberString(0),
     TextOf(NaN), JsonObject}

CodecArgs ==
    {[op |-> "parseArgs", raw |-> raw] : raw \in RawValues}
    \cup {[op |-> "samplesArgs", samples |-> samples] :
              samples \in SeqsUpTo(CodecSamples, MaxHistoryLen)}
    \cup {[op |-> "cachedArgs", values |-> <<a, b>>] :
              a \in AvgValues, b \in AvgValues}

ApplyParseSamples ==
    /\ codecIO.op = "parseArgs"
    /\ codecIO' = [op |-> "parsed", raw |-> codecIO.raw,
                   result |-> parseSamples(codecIO.raw)]
    /\ UNCHANGED <<poll, bucketIO, titles, setIO, chunkIO, apiIO, ui, kv, hasPipeline, call, ncalls, prev, upsertIO, avgIO, avgFrom>>

ApplySerializeSamples ==
    /\ codecIO.op = "samplesArgs"
    /\ codecIO' = [op |-> "encoded", samples |-> codecIO.samples,
                   encoded |-> serializeSamples(codecIO.samples),
                   decoded |-> parseSamples(serializeSamples(codecIO.samples)),
                   decodedLegacy |-> parseSamples(legacyEncoding(codecIO.samples))]
    /\ UNCHANGED <<poll, bucketIO, titles, setIO, chunkIO, apiIO, ui, kv, hasPipeline, call, ncalls, prev, upsertIO, avgIO, avgFrom>>

CodecRoutes == <<"R1", "R2">>

ApplyCachedOut ==
    /\ codecIO.op = "cachedArgs"
    /\ codecIO' = [op |-> "cached", values |-> codecIO.values,
                   out |-> cachedOut(CodecRoutes, codecIO.values)]
    /\ UNCHANGED <<poll, bucketIO, titles, setIO, chunkIO, apiIO, ui, kv, hasPipeline, call, ncalls, prev, upsertIO, avgIO, avgFrom>>

InitCodec ==
    /\ kv = EmptyStore
    /\ hasPipeline = TRUE
    /\ call = [c \in Calls |-> IdleCall]
    /\ ncalls = 0
    /\ prev = NoPrev
    /\ upsertIO = NoIO
    /\ avgIO = NoIO
    /\ codecIO \in CodecArgs
    /\ avgFrom = NoAvgFrom
    /\ chunkIO = NoIO
    /\ apiIO = NoIO
    /\ ui = NoIO
    /\ setIO = NoIO
    /\ bucketIO = NoIO
    /\ titles = NoIO
    /\ poll = NoIO

NextCodec ==
    \/ ApplyParseSamples
    \/ ApplySerializeSamples
    \/ ApplyCachedOut

SpecCodec == InitCodec /\ [][NextCodec]_vars

(***************************************************************************)
(* Claims about trimAndUpsert (SpecUpsert)                                 *)
(***************************************************************************)
\* C6 as claimed: for every history, sorted or not, with or without repeated
\* timestamps, the output of trimAndUpsert is ascending by timestamp, holds
\* no two entries with the same timestamp and at most MAX_SAMPLES_PER_ROUTE
\* entries.
C6_AsClaimed ==
    upsertIO.op = "result" =>
        /\ Ascending(upsertIO.result)
        /\ NoRepeatedT(upsertIO.result)
        /\ Len(upsertIO.result) <= MAX_SAMPLES_PER_ROUTE

\* C6 amended: for every history the output is ascending by timestamp and
\* holds at most MAX_SAMPLES_PER_ROUTE entries; it holds no two entries with
\* the same timestamp when the input history holds none (only entries of the
\* upserted sample's timestamp are removed).
C6_UpsertOutput ==
    upsertIO.op = "result" =>
        /\ Ascending(upsertIO.result)
        /\ Len(upsertIO.result) <= MAX_SAMPLES_PER_ROUTE
        /\ NoRepeatedT(upsertIO.samples) => NoRepeatedT(upsertIO.result)

\* An unsorted history longer than the cap, without repeated timestamps, cut
\* to the cap.
C6_Witness ==
    /\ upsertIO.op = "result"
    /\ ~Ascending(upsertIO.samples)
    /\ NoRepeatedT(upsertIO.samples)
    /\ Len(upsertIO.samples) > MAX_SAMPLES_PER_ROUTE
    /\ Len(upsertIO.result) = MAX_SAMPLES_PER_ROUTE

(***************************************************************************)
(* Claims about compute24hAvgKmh (SpecAgg)                                 *)
(***************************************************************************)
AggDone == avgIO.op = "result"

\* C7 as claimed: a single sample at t and 0 <= now - t < intervalMs,
\* now = t included, give exactly the sample's speed.
C7_AsClaimed ==
    (/\ AggDone
     /\ Len(avgIO.samples) = 1
     /\ 0 <= avgIO.nowMs - avgIO.samples[1].t
     /\ avgIO.nowMs - avgIO.samples[1].t < SAMPLE_INTERVAL_MS)
    => avgIO.result = <<avgIO.samples[1].v, 1>>

\* C7 amended: a single sample at t and 0 < now - t < intervalMs give exactly
\* the sample's speed; with now = t the sample is credited no time and the
\* result is null.
C7_SingleSample ==
    (AggDone /\ Len(avgIO.samples) = 1) =>
        LET age == avgIO.nowMs - avgIO.samples[1].t
        IN /\ (0 < age /\ age < SAMPLE_INTERVAL_MS)
                => avgIO.result = <<avgIO.samples[1].v, 1>>
           /\ age = 0 => avgIO.result = Null

C7_Witness ==
    /\ AggDone
    /\ Len(avgIO.samples) = 1
    /\ avgIO.nowMs - avgIO.samples[1].t = 30000
    /\ avgIO.result = <<avgIO.samples[1].v, 1>>

AllOutside(samples, lo, hi) ==
    \A i \in 1..Len(samples) : samples[i].t < lo \/ samples[i].t > hi

\* C8 as claimed: a history with every timestamp outside [cutoff, now] gives
\* null.
C8_AsClaimed ==
    (AggDone /\ AllOutside(avgIO.samples, avgIO.cutoffMs, avgIO.nowMs))
    => avgIO.result = Null

\* C8 amended: a history in which every timestamp is later than now or at
\* least one sampling interval older than cutoff gives null (a sample less
\* than one interval older than cutoff is credited the part of its interval
\* that lies inside the window).
C8_OutsideWindow ==
    (AggDone /\ AllOutside(avgIO.samples,
                           avgIO.cutoffMs - SAMPLE_INTERVAL_MS + 1, avgIO.nowMs))
    => avgIO.result = Null

\* A sample older than the window and one later than now, and no data.
C8_Witness ==
    /\ AggDone
    /\ \E i \in 1..Len(avgIO.samples) :
           avgIO.samples[i].t <= avgIO.cutoffMs - SAMPLE_INTERVAL_MS
    /\ \E i \in 1..Len(avgIO.samples) : avgIO.samples[i].t > avgIO.nowMs
    /\ avgIO.result = Null

ScenarioB == <<Sample(0, 200), Sample(3600000, 400)>>

\* C9: the duration credited to a sample never exceeds intervalMs nor the
\* time to the next sample, and a credited interval lies inside
\* [cutoff, now]; for [(0, 20), (3600000, 40)] with now = 3600000 the first
\* sample is credited 60000 ms, the second 0 ms, and the result is 20.
C9_CreditedDuration ==
    AggDone =>
        /\ \A i \in 1..Len(avgIO.credited) :
               LET c == avgIO.credited[i]
               IN /\ c.durationMs >= 0
                  /\ c.durationMs <= SAMPLE_INTERVAL_MS
                  /\ i < Len(avgIO.credited)
                         => c.durationMs <= avgIO.credited[i + 1].t - c.t
                  /\ c.durationMs > 0 =>
                         /\ c.durationMs = c.end - c.start
                         /\ avgIO.cutoffMs <= c.start
                         /\ c.end <= avgIO.nowMs
        /\ (avgIO.samples = ScenarioB /\ avgIO.nowMs = 3600000) =>
               /\ avgIO.credited[1].durationMs = 60000
               /\ avgIO.credited[2].durationMs = 0
               /\ avgIO.result = <<200, 1>>

C9_Witness ==
    /\ AggDone
    /\ avgIO.samples = ScenarioB
    /\ avgIO.nowMs = 3600000
    /\ avgIO.result = <<200, 1>>

(***************************************************************************)
(* Claims about parseSamples, serializeSamples and asNumber (SpecCodec)    *)
(***************************************************************************)
AllFinite(samples) ==
    \A i \in 1..Len(samples) : IsFinite(samples[i].t) /\ IsFinite(samples[i].v)

\* C18: for every history x with finite t and v, parseSamples of
\* serializeSamples(x) gives the same (t, v) pairs in the same order;
\* decoding the legacy {t, v} object form of a history gives the same
\* samples as decoding its compact [t, v] form; serializeSamples always
\* writes the compact form.
C18_RoundTrip ==
    codecIO.op = "encoded" =>
        /\ AllFinite(codecIO.samples) => codecIO.decoded = codecIO.samples
        /\ codecIO.decodedLegacy = codecIO.decoded
        /\ codecIO.encoded.kind = "json"
        /\ Len(codecIO.encoded.items) = Len(codecIO.samples)
        /\ \A i \in 1..Len(codecIO.encoded.items) :
               codecIO.encoded.items[i].enc = "tuple"

\* A history of two finite samples out of order, one with a negative speed.
C18_Witness ==
    /\ codecIO.op = "encoded"
    /\ Len(codecIO.samples) = 2
    /\ AllFinite(codecIO.samples)
    /\ codecIO.samples[1].t > codecIO.samples[2].t
    /\ codecIO.samples[1].v < 0
    /\ codecIO.decoded = codecIO.samples

\* An entry is well formed when it is a [t, v] tuple or a {t, v} object
\* whose two fields asNumber reads as finite numbers (a number, or a string
\* Number() reads as one: the empty string reads as 0).
WellFormed(item) ==
    /\ item.enc \in {"tuple", "object"}
    /\ item.t # JsonNull
    /\ item.v # JsonNull

fieldValue(x) == IF x = EmptyString THEN 0 ELSE x

\* C19: parseSamples never fails: an absent value, a string that is no JSON
\* and a value that is no array give the empty history; in an array every
\* entry whose two fields do not both parse as finite numbers is dropped
\* and the other entries are kept, in order.
C19_DecodeTotal ==
    codecIO.op = "parsed" =>
        LET kept == IF codecIO.raw.kind = "json"
                    THEN SelectSeq(codecIO.raw.items, WellFormed)
                    ELSE <<>>
        IN /\ Len(codecIO.result) = Len(kept)
           /\ \A i \in 1..Len(kept) :
                  codecIO.result[i] =
                      Sample(fieldValue(kept[i].t), fieldValue(kept[i].v))

\* An array of a malformed entry followed by a well formed one.
C19_Witness ==
    /\ codecIO.op = "parsed"
    /\ codecIO.raw.kind = "json"
    /\ Len(codecIO.raw.items) = 2
    /\ ~WellFormed(codecIO.raw.items[1])
    /\ Len(codecIO.result) = 1
    /\ codecIO.result[1].v = codecIO.raw.items[2].v

\* C20 as claimed: on the cached-average path a route whose avg value is
\* absent or no parseable decimal number (the string "null" and the empty
\* string included) maps to null, and a parseable value maps to that number
\* rounded to one decimal.
C20_AsClaimed ==
    codecIO.op = "cached" =>
        \A i \in 1..Len(CodecRoutes) :
            LET value == codecIO.values[i]
                out == codecIO.out[CodecRoutes[i]]
            IN IF value.kind = "number"
               THEN out = <<round1(<<value.n, 1>>)>>
               ELSE out = Null

(***************************************************************************)
(* Chunked store traffic: one refresh over many routes                     *)
(*                                                                         *)
(* The refresh actions above read and write the keys of a batch in one     *)
(* step, which is what mgetChunked and setManyChunked do for up to 100     *)
(* routes.  Here refresh runs over up to MaxRoutes routes, one store       *)
(* request per step, and every request is logged with the keys it carries. *)
(* All store calls succeed; failures are the subject of Spec.              *)
(***************************************************************************)
KV_MGET_CHUNK_SIZE == 100
KV_SET_OPS_PER_PIPELINE == 200

MaxRoutes == 201

\* chunk that returns the items as one part.
ChunkWhole(items, size) == <<items>>

chunk(items, size) ==
    IF size <= 0 THEN <<items>>
    ELSE [k \in 1..Ceil(Len(items), size) |->
             SubSeq(items, (k - 1) * size + 1, Min(k * size, Len(items)))]

\* Route tags "1", "2", ...; route i reads 10.0 + i/10 km/h now, and the
\* store holds for it one sample of the previous bucket and an average,
\* both 100.0 + i/10 km/h.
ManyRoutes(n) == [i \in 1..n |-> Reading(ToString(i), 100 + i)]

ManyNowMs == 10000

ManyKeys ==
    {KV_LAST_BUCKET_KEY}
    \cup {sampleKey(ToString(i)) : i \in 1..MaxRoutes}
    \cup {avgKey(ToString(i)) : i \in 1..MaxRoutes}

ManyStore(marker) ==
    [key \in ManyKeys |->
        IF key = KV_LAST_BUCKET_KEY THEN marker
        ELSE LET i == CHOOSE j \in 1..MaxRoutes : ToString(j) = key[2]
             IN IF key[1] = "samples"
                THEN [kind |-> "json", n |-> 0,
                      items |-> << [enc |-> "tuple", t |-> -SAMPLE_INTERVAL_MS,
                                    v |-> 1000 + i] >>]
                ELSE NumberString(1000 + i)]

\* How many routes the batch names: none, few, and the counts around one,
\* two and three chunks.
RouteCounts == {0, 1, 2, 50, 99, 100, 101, 150, 199, 200, MaxRoutes}

ManyArgs ==
    {[pc |-> "get", liveRoutes |-> ManyRoutes(n), nowMs |-> ManyNowMs,
      routeTags |-> <<>>, path |-> "none", values |-> <<>>, kvSets |-> <<>>,
      groups |-> 0, requests |-> <<>>, out |-> <<>>] : n \in RouteCounts}

Request(op, keys) == [op |-> op, keys |-> keys]

\* client.mget(...part)
mget(store, part) == [i \in 1..Len(part) |-> store[part[i]]]

\* out.unshift(...values)
PushValuesFirst(out, values) == values \o out

\* out.push(...values)
pushValues(out, values) == out \o values

\* routeTags.map(avgKey) on the cached path, routeTags.map(sampleKey) otherwise
keysOf(path, routeTags) ==
    IF path = "cached"
    THEN [i \in 1..Len(routeTags) |-> avgKey(routeTags[i])]
    ELSE [i \in 1..Len(routeTags) |-> sampleKey(routeTags[i])]

\* client.get(KV_LAST_BUCKET_KEY) returns; routeTags is built and the path
\* is chosen.
GetMarkerMany ==
    /\ chunkIO.pc = "get"
    /\ LET routeTags == routeTagsOf(chunkIO.liveRoutes)
           lastBucketMs == asNumber(kv[KV_LAST_BUCKET_KEY])
           cached == lastBucketMs = <<toBucketMs(chunkIO.nowMs)>>
       IN chunkIO' =
            IF Len(routeTags) = 0
            THEN [chunkIO EXCEPT !.pc = "done", !.path = "empty"]
            ELSE [chunkIO EXCEPT
                    !.pc = "mget",
                    !.routeTags = routeTags,
                    !.path = IF cached THEN "cached" ELSE "recompute"]
    /\ UNCHANGED <<poll, bucketIO, titles, setIO, kv, hasPipeline, call, ncalls, prev, upsertIO, avgIO, codecIO,
                   avgFrom, apiIO, ui>>

\* One iteration of the loop of mgetChunked: the next part is requested and
\* its values are pushed to out.  After the last part refresh goes on: the
\* cached path builds the result, the recompute path stages the sets.
MgetChunk ==
    /\ chunkIO.pc = "mget"
    /\ LET parts == chunk(keysOf(chunkIO.path, chunkIO.routeTags),
                          KV_MGET_CHUNK_SIZE)
           part == parts[Len(chunkIO.requests) + 1]
           values == pushValues(chunkIO.values, mget(kv, part))
           requests == Append(chunkIO.requests, Request("mget", part))
           routeTags == chunkIO.routeTags
           kvSets == stagedSets(routeTags, 1, chunkIO.liveRoutes, values,
                                chunkIO.nowMs)
       IN chunkIO' =
            IF Len(requests) < Len(parts)
            THEN [chunkIO EXCEPT !.values = values, !.requests = requests]
            ELSE IF chunkIO.path = "cached"
            THEN [chunkIO EXCEPT !.values = values, !.requests = requests,
                                 !.pc = "done",
                                 !.out = cachedOut(routeTags, values)]
            ELSE [chunkIO EXCEPT !.values = values, !.requests = requests,
                                 !.pc = IF kvSets = <<>> THEN "marker" ELSE "sets",
                                 !.kvSets = kvSets,
                                 !.out = recomputeOut(routeTags, chunkIO.liveRoutes,
                                                      values, chunkIO.nowMs)]
    /\ UNCHANGED <<poll, bucketIO, titles, setIO, kv, hasPipeline, call, ncalls, prev, upsertIO, avgIO, codecIO,
                   avgFrom, apiIO, ui>>

\* One iteration of a loop of setManyChunked: the next part of kvSets goes
\* out as one pipeline (op "exec") or, without pipeline, as one Promise.all
\* of client.set calls (op "sets").
SetChunk ==
    /\ chunkIO.pc = "sets"
    /\ LET parts == chunk(chunkIO.kvSets, KV_SET_OPS_PER_PIPELINE)
           part == parts[chunkIO.groups + 1]
       IN /\ kv' = applySets(kv, part)
          /\ chunkIO' =
               [chunkIO EXCEPT
                  !.groups = chunkIO.groups + 1,
                  !.requests = Append(chunkIO.requests,
                                      Request(IF hasPipeline THEN "exec" ELSE "sets",
                                              [i \in 1..Len(part) |-> part[i][1]])),
                  !.pc = IF chunkIO.groups + 1 < Len(parts) THEN "sets"
                         ELSE "marker"]
    /\ UNCHANGED <<poll, bucketIO, titles, setIO, hasPipeline, call, ncalls, prev, upsertIO, avgIO, codecIO,
                   avgFrom, apiIO, ui>>

\* client.set(KV_LAST_BUCKET_KEY, String(bucketMs)); refresh returns.
SetMarkerMany ==
    /\ chunkIO.pc = "marker"
    /\ kv' = [kv EXCEPT ![KV_LAST_BUCKET_KEY] =
                 NumberString(toBucketMs(chunkIO.nowMs))]
    /\ chunkIO' = [chunkIO EXCEPT !.pc = "done"]
    /\ UNCHANGED <<poll, bucketIO, titles, setIO, hasPipeline, call, ncalls, prev, upsertIO, avgIO, codecIO,
                   avgFrom, apiIO, ui>>

InitChunk ==
    /\ kv \in {ManyStore(Absent), ManyStore(NumberString(toBucketMs(ManyNowMs)))}
    /\ hasPipeline \in BOOLEAN
    /\ call = [c \in Calls |-> IdleCall]
    /\ ncalls = 0
    /\ prev = NoPrev
    /\ upsertIO = NoIO
    /\ avgIO = NoIO
    /\ codecIO = NoIO
    /\ avgFrom = NoAvgFrom
    /\ chunkIO \in ManyArgs
    /\ apiIO = NoIO
    /\ ui = NoIO
    /\ setIO = NoIO
    /\ bucketIO = NoIO
    /\ titles = NoIO
    /\ poll = NoIO

NextChunk ==
    \/ GetMarkerMany
    \/ MgetChunk
    \/ SetChunk
    \/ SetMarkerMany

SpecChunk == InitChunk /\ [][NextChunk]_vars

(***************************************************************************)
(* Claims about chunked store traffic (SpecChunk)                          *)
(***************************************************************************)
\* C21: for any number of requested routes, every multi-get issued by
\* refresh carries at most KV_MGET_CHUNK_SIZE (100) keys and every batch of
\* writes (one pipeline exec, or one group of concurrent sets) carries at
\* most KV_SET_OPS_PER_PIPELINE (200) set operations.
C21_BoundedRequests ==
    \A i \in 1..Len(chunkIO.requests) :
        LET r == chunkIO.requests[i]
        IN /\ r.op = "mget" => Len(r.keys) <= 100
           /\ r.op \in {"exec", "sets"} => Len(r.keys) <= 200

\* A refresh of more than 200 routes has recomputed and returned: three
\* multi-gets, the first of 100 keys, and three write groups, the first of 200
\* sets.
C21_Witness ==
    /\ chunkIO.pc = "done"
    /\ chunkIO.path = "recompute"
    /\ Len(chunkIO.liveRoutes) > 200
    /\ Len(chunkIO.requests) = 6
    /\ chunkIO.requests[1].op = "mget" /\ Len(chunkIO.requests[1].keys) = 100
    /\ chunkIO.requests[4].op # "mget" /\ Len(chunkIO.requests[4].keys) = 200

\* The parts of a chunking put end to end.
RECURSIVE Concat(_)
Concat(parts) == IF parts = <<>> THEN <<>> ELSE parts[1] \o Concat(Tail(parts))

\* Chunk sizes: the size <= 0 that chunk answers with one part, and sizes
\* that leave a short last part or none.
ChunkSizes == {-1, 0, 7, 67, KV_MGET_CHUNK_SIZE, 1000}

\* What the store held under a key when the refresh began.
storedAtStart(key) == ManyStore(Absent)[key]

\* C22: for any key list and chunk size, the value at index i of the chunked
\* multi-get result is the store's value for the i-th key of the input list,
\* so in refresh each route is paired with its own history (recompute path:
\* its result and what is written for it come from its own history) or with
\* its own cached average (cached path), whatever the number of chunks.
C22_ResultOrder ==
    LET keys == keysOf(chunkIO.path, chunkIO.routeTags)
        returned == chunkIO.pc \in {"sets", "marker"}
                    \/ (chunkIO.pc = "done" /\ chunkIO.path # "empty")
    IN /\ \A i \in 1..Len(chunkIO.values) :
              chunkIO.values[i] = storedAtStart(keys[i])
       /\ returned => Len(chunkIO.values) = Len(keys)
       /\ chunkIO.pc # "get" =>
              \A size \in ChunkSizes : Concat(chunk(keys, size)) = keys
       /\ chunkIO.pc = "done" /\ chunkIO.path = "cached" =>
              \A i \in 1..Len(chunkIO.liveRoutes) :
                  chunkIO.out[chunkIO.liveRoutes[i].routeTag] = <<1000 + i>>
       /\ chunkIO.pc = "done" /\ chunkIO.path = "recompute" =>
              \A i \in 1..Len(chunkIO.liveRoutes) :
                  LET tag == chunkIO.liveRoutes[i].routeTag
                      nextSamples ==
                          nextSamplesOf(storedAtStart(sampleKey(tag)),
                                        chunkIO.liveRoutes[i].liveSpeedKmh,
                                        chunkIO.nowMs)
                  IN /\ nextSamples = << Sample(-SAMPLE_INTERVAL_MS, 1000 + i),
                                         Sample(0, 100 + i) >>
                     /\ chunkIO.out[tag] = roundedAvgOf(nextSamples, chunkIO.nowMs)
                     /\ kv[sampleKey(tag)] = serializeSamples(nextSamples)
                     /\ kv[avgKey(tag)] = StringOf(chunkIO.out[tag])

\* A refresh of more than 200 routes was served from the cache by three
\* multi-gets, and route "150", whose key went out in the second, has its own
\* average.
C22_Witness ==
    /\ chunkIO.pc = "done"
    /\ chunkIO.path = "cached"
    /\ Len(chunkIO.requests) = 3
    /\ avgKey("150") \in Range(chunkIO.requests[2].keys)
    /\ chunkIO.out["150"] = <<1150>>

(***************************************************************************)
(* The /api/ttc handler and the store configuration (api/ttc.ts, api/kv.ts)*)
(*                                                                         *)
(* A vehicle of the feed carries a routeTag ("" when the attribute is      *)
(* missing or empty) and a speedKmHr attribute: missing, the empty string, *)
(* a text that is no number, or the decimal text of a number (in tenths).  *)
(* An environment variable is unset or a string, held as the sequence of   *)
(* its characters.                                                         *)
(***************************************************************************)
MaxVehicles == 2

SpeedMissing == [kind |-> "missing", n |-> 0]
SpeedEmpty == [kind |-> "empty", n |-> 0]
SpeedText == [kind |-> "text", n |-> 0]
SpeedNumber(n) == [kind |-> "number", n |-> n]

RawSpeeds ==
    {SpeedMissing, SpeedEmpty, SpeedText}
    \cup {SpeedNumber(n) : n \in {-50, 0, 120, 126}}

Vehicle(routeTag, speedKmHr) == [routeTag |-> routeTag, speedKmHr |-> speedKmHr]

Vehicles == {Vehicle(r, s) : r \in {"", "R1", "R2"}, s \in RawSpeeds}

Feeds == SeqsUpTo(Vehicles, MaxVehicles)

\* parseInt(String(value)): the digits before the decimal point; NaN for
\* "undefined", "" and a text that does not start with a number
parseIntOf(value) ==
    IF value.kind # "number" THEN NaN
    ELSE IF value.n >= 0 THEN (value.n \div 10) * 10
    ELSE -(((-value.n) \div 10) * 10)

\* parseSpeedKmh that lets negative numbers through.
ParseSpeedKmhAllowsNegative(value) ==
    IF value.kind # "number" THEN Null ELSE <<value.n>>

parseSpeedKmh(value) ==
    IF value.kind = "missing" THEN Null
    ELSE IF value.kind = "empty" THEN Null
    ELSE IF value.kind = "text" THEN Null
    ELSE IF value.n < 0 THEN Null
    ELSE <<value.n>>

\* The routes of trams in insertion order: the first vehicle of each route
\* among those the loop counts.
tramRoutes(counted) ==
    LET first == SelectSeq([i \in 1..Len(counted) |-> i], LAMBDA i :
                     \A j \in 1..(i - 1) :
                         counted[j].routeTag # counted[i].routeTag)
    IN [k \in 1..Len(first) |-> counted[first[k]].routeTag]

RECURSIVE sumOf(_)
sumOf(numbers) ==
    IF numbers = <<>> THEN 0 ELSE Plus(numbers[1], sumOf(Tail(numbers)))

\* parseFloat((total_speed / total_trams).toFixed(1)), in tenths
toFixed1(total, count) ==
    IF ~IsFinite(total) THEN NaN ELSE (2 * total + count) \div (2 * count)

\* [route, speed] entries sorted by (a, b) => b[1] - a[1]; a comparison with
\* NaN answers NaN, which sort takes for 0.
sortBySpeed(entries) ==
    SortSeq(entries, LAMBDA a, b :
        IsFinite(a[2]) /\ IsFinite(b[2]) /\ a[2] > b[2])

\* average_speeds of a loop that counts the vehicles `counted` with the
\* speeds speedOf gives them, as sorted entries.
averageSpeeds(counted, speedOf(_)) ==
    LET routes == tramRoutes(counted)
    IN sortBySpeed(
         [k \in 1..Len(routes) |->
            LET mine == SelectSeq(counted, LAMBDA v : v.routeTag = routes[k])
                total == sumOf([i \in 1..Len(mine) |-> speedOf(mine[i])])
            IN <<routes[k], toFixed1(total, Len(mine))>>])

\* The first revision of the handler (api/ttc.ts), from before the
\* validation rule: every vehicle with a route tag is counted, with parseInt
\* of its speed.
handlerParseInt(vehicles) ==
    averageSpeeds(SelectSeq(vehicles, LAMBDA v : v.routeTag # ""),
                  LAMBDA v : parseIntOf(v.speedKmHr))

\* The handler: a vehicle is counted when it has a route tag and
\* parseSpeedKmh accepts its speed.
handler(vehicles) ==
    averageSpeeds(SelectSeq(vehicles, LAMBDA v :
                      v.routeTag # "" /\ parseSpeedKmh(v.speedKmHr) # Null),
                  LAMBDA v : parseSpeedKmh(v.speedKmHr)[1])

\* process.env values: unset, or a string of spaces and other characters.
EnvUnset == [defined |-> FALSE, text |-> <<>>]
EnvText(text) == [defined |-> TRUE, text |-> text]

EnvValues ==
    {EnvUnset, EnvText(<<>>), EnvText(<<" ">>), EnvText(<<" ", " ">>),
     EnvText(<<"x">>), EnvText(<<" ", "x", " ">>)}

Envs == [KV_REST_API_URL : EnvValues, KV_REST_API_TOKEN : EnvValues]

\* value ?? ''
orEmpty(value) == IF value.defined THEN value.text ELSE <<>>

\* String.prototype.trim
trim(text) ==
    LET inked == {i \in 1..Len(text) : text[i] # " "}
    IN IF inked = {} THEN <<>>
       ELSE SubSeq(text, CHOOSE i \in inked : \A j \in inked : i <= j,
                         CHOOSE i \in inked : \A j \in inked : i >= j)

\* getKvEnv without the trim.
GetKvEnvUntrimmed(env) ==
    LET url == orEmpty(env.KV_REST_API_URL)
        token == orEmpty(env.KV_REST_API_TOKEN)
    IN IF url = <<>> \/ token = <<>> THEN Null
       ELSE <<[url |-> url, token |-> token]>>

getKvEnv(env) ==
    LET url == trim(orEmpty(env.KV_REST_API_URL))
        token == trim(orEmpty(env.KV_REST_API_TOKEN))
    IN IF url = <<>> \/ token = <<>> THEN Null
       ELSE <<[url |-> url, token |-> token]>>

\* getKvClient: null, or the client createClient makes of the env
getKvClient(env) ==
    LET kvEnv == getKvEnv(env)
    IN IF kvEnv = Null THEN Null
       ELSE <<[url |-> kvEnv[1].url, token |-> kvEnv[1].token]>>

\* Feeds of the requests that look at the environment.
EnvFeeds ==
    { <<>>,
      <<Vehicle("R1", SpeedNumber(120))>>,
      <<Vehicle("R1", SpeedNumber(120)), Vehicle("R2", SpeedNumber(0))>> }

ApiRequests ==
    {[op |-> "feed", vehicles |-> vehicles] : vehicles \in Feeds}
    \cup {[op |-> "envRequest", env |-> env, vehicles |-> vehicles] :
              env \in Envs, vehicles \in EnvFeeds}

\* One entry of the response (ApiLiveRouteSpeed).
ApiLiveRouteSpeed(routeTag, liveSpeedKmh, avg24hAvailable, avg24hSpeedKmh) ==
    [routeTag |-> routeTag, liveSpeedKmh |-> liveSpeedKmh,
     avg24hAvailable |-> avg24hAvailable, avg24hSpeedKmh |-> avg24hSpeedKmh]

\* What the engine may answer for a route: no data or an average.
RefreshAverages == {Null, <<123>>}

\* The caller of the engine.  Without a client refresh is not invoked and
\* every route is returned with its live speed, a null average and the flag
\* avg24hAvailable = false; with a client refresh is invoked, and a failure
\* of it is caught and answered like a missing store.
ServeTtc ==
    /\ apiIO.op = "envRequest"
    /\ LET client == getKvClient(apiIO.env)
           live == handler(apiIO.vehicles)
       IN \E ok \in BOOLEAN, avg \in RefreshAverages :
            /\ client = Null => ~ok /\ avg = Null
            /\ ~ok => avg = Null
            /\ apiIO' =
                 [op |-> "served", env |-> apiIO.env, vehicles |-> apiIO.vehicles,
                  refreshInvoked |-> client # Null,
                  raised |-> FALSE,
                  routes |-> [k \in 1..Len(live) |->
                                 ApiLiveRouteSpeed(live[k][1], live[k][2], ok, avg)]]
    /\ UNCHANGED <<poll, bucketIO, titles, setIO, kv, hasPipeline, call, ncalls, prev, upsertIO, avgIO, codecIO,
                   avgFrom, chunkIO, ui>>

\* One request served by the first revision of the handler.
ServeLiveParseInt ==
    /\ apiIO.op = "feed"
    /\ apiIO' = [op |-> "liveParseInt", vehicles |-> apiIO.vehicles,
                 response |-> handlerParseInt(apiIO.vehicles)]
    /\ UNCHANGED <<poll, bucketIO, titles, setIO, kv, hasPipeline, call, ncalls, prev, upsertIO, avgIO, codecIO,
                   avgFrom, chunkIO, ui>>

\* One request served by the handler.
ServeLive ==
    /\ apiIO.op = "feed"
    /\ apiIO' = [op |-> "live", vehicles |-> apiIO.vehicles,
                 response |-> handler(apiIO.vehicles)]
    /\ UNCHANGED <<poll, bucketIO, titles, setIO, kv, hasPipeline, call, ncalls, prev, upsertIO, avgIO, codecIO,
                   avgFrom, chunkIO, ui>>

InitApi ==
    /\ kv = EmptyStore
    /\ hasPipeline = TRUE
    /\ call = [c \in Calls |-> IdleCall]
    /\ ncalls = 0
    /\ prev = NoPrev
    /\ upsertIO = NoIO
    /\ avgIO = NoIO
    /\ codecIO = NoIO
    /\ avgFrom = NoAvgFrom
    /\ chunkIO = NoIO
    /\ apiIO \in ApiRequests
    /\ ui = NoIO
    /\ setIO = NoIO
    /\ bucketIO = NoIO
    /\ titles = NoIO
    /\ poll = NoIO

NextApi ==
    \/ ServeTtc
    \/ ServeLive
    \/ ServeLiveParseInt

SpecApi == InitApi /\ [][NextApi]_vars

(***************************************************************************)
(* Claims about the API (SpecApi)                                          *)
(***************************************************************************)
\* Not configured: KV_REST_API_URL or KV_REST_API_TOKEN is unset or blank.
Blank(value) == ~value.defined \/ \A i \in 1..Len(value.text) : value.text[i] = " "

NotConfigured(env) == Blank(env.KV_REST_API_URL) \/ Blank(env.KV_REST_API_TOKEN)

ValidVehicle(v) ==
    v.routeTag # "" /\ v.speedKmHr.kind = "number" /\ v.speedKmHr.n >= 0

Without(vehicles, i) ==
    SubSeq(vehicles, 1, i - 1) \o SubSeq(vehicles, i + 1, Len(vehicles))

\* The validation rule, of a handler h and the response it gave to a feed:
\* the vehicles with a missing, empty, non-numeric or negative speed make no
\* difference to the response; a vehicle with speed 0 beside a moving one of
\* its route does; the routes returned are those with a valid vehicle; no
\* speed returned is NaN or infinite.
FollowsValidationRule(h(_), vehicles, response) ==
    /\ response = h(SelectSeq(vehicles, ValidVehicle))
    /\ \A i \in 1..Len(vehicles) :
          /\ ValidVehicle(vehicles[i])
          /\ vehicles[i].speedKmHr.n = 0
          /\ \E j \in 1..Len(vehicles) :
                /\ ValidVehicle(vehicles[j])
                /\ vehicles[j].routeTag = vehicles[i].routeTag
                /\ vehicles[j].speedKmHr.n > 0
          => response # h(Without(vehicles, i))
    /\ {response[k][1] : k \in 1..Len(response)}
           = {v.routeTag : v \in {w \in Range(vehicles) : ValidVehicle(w)}}
    /\ \A k \in 1..Len(response) : IsFinite(response[k][2])

ParseIntHandlerFollowsRule ==
    apiIO.op = "liveParseInt" =>
        FollowsValidationRule(handlerParseInt, apiIO.vehicles, apiIO.response)

(***************************************************************************)
(* The page (src/App.tsx, src/LeaderboardQueue.ts)                         *)
(*                                                                         *)
(* ui.leaderboardData is what leaderboardDataRef.current and the state     *)
(* leaderboardData hold; the code assigns the two together.  An event      *)
(* handler is one step together with the effects its state changes set     *)
(* off.  A route number is held as the number its digits spell, which is   *)
(* the order localeCompare(..., {numeric: true}) gives digit strings.      *)
(***************************************************************************)
UiRoutes == {7, 501}

NEGATIVE_INFINITY == -2000000002

LeaderboardData(routeNumber, liveSpeedKmh, avg24hSpeedKmh) ==
    [routeNumber |-> routeNumber, routeTitle |-> Null,
     liveSpeedKmh |-> liveSpeedKmh, avg24hSpeedKmh |-> avg24hSpeedKmh]

UiItems ==
    {LeaderboardData(r, live, avg) :
        r \in UiRoutes, live \in {100, 200}, avg \in {Null, <<150>>}}

\* The route lists /api/ttc answers with: each route at most once.
ApiBatches ==
    {batch \in SeqsUpTo(UiItems, Cardinality(UiRoutes)) :
        \A i, j \in 1..Len(batch) :
            i # j => batch[i].routeNumber # batch[j].routeNumber}

getTransitType(routeNumber) ==
    IF routeNumber >= 500 /\ routeNumber <= 599 THEN "streetcar"
    ELSE IF routeNumber \in 1..4 THEN "subway"
    ELSE "bus"

getSortValue(item, metric) ==
    LET raw == IF metric = "avg24h" THEN item.avg24hSpeedKmh
               ELSE <<item.liveSpeedKmh>>
    IN IF raw = Null THEN NEGATIVE_INFINITY
       ELSE IF ~IsFinite(raw[1]) THEN NEGATIVE_INFINITY
       ELSE raw[1]

\* sortLeaderboard that sorts in ascending order of the value.
SortLeaderboardAscending(data, metric) ==
    SortSeq(data, LAMBDA a, b :
        IF getSortValue(b, metric) # getSortValue(a, metric)
        THEN getSortValue(b, metric) - getSortValue(a, metric) > 0
        ELSE a.routeNumber < b.routeNumber)

sortLeaderboard(data, metric) ==
    SortSeq(data, LAMBDA a, b :
        IF getSortValue(b, metric) # getSortValue(a, metric)
        THEN getSortValue(b, metric) - getSortValue(a, metric) < 0
        ELSE a.routeNumber < b.routeNumber)

\* findIndex by route number: 0 when there is none
findIndex(items, routeNumber) ==
    LET found == {i \in 1..Len(items) : items[i].routeNumber = routeNumber}
    IN IF found = {} THEN 0 ELSE CHOOSE i \in found : \A j \in found : i <= j

\* popFront that leaves the front item queued, as peekFront does.
PopFrontKeeping(queue) == queue

\* LeaderboardQueue.popFront, items.shift(): the items left in the queue
popFront(queue) == IF queue = <<>> THEN <<>> ELSE Tail(queue)

\* upsertAll that pushes every item, as append does.
UpsertAllAppending(queue, items) == queue \o items

\* LeaderboardQueue.upsertAll
RECURSIVE upsertAll(_, _)
upsertAll(queue, items) ==
    IF items = <<>> THEN queue
    ELSE LET existingIndex == findIndex(queue, items[1].routeNumber)
         IN upsertAll(IF existingIndex # 0
                      THEN [queue EXCEPT ![existingIndex] = items[1]]
                      ELSE Append(queue, items[1]),
                      Tail(items))

\* The rows the page shows: leaderboardData under the transit filter.
displayed(leaderboardData, transitFilter) ==
    SelectSeq(leaderboardData, LAMBDA position :
        transitFilter = "all" \/ getTransitType(position.routeNumber) = transitFilter)

\* What the last run of processNextItem did: how many queued updates it
\* applied, the delay of the timer it set, and whether the route order of
\* leaderboardData, and of the rows shown, differed after it.
NoTick == [applied |-> 0, delay |-> -1, reordered |-> FALSE, shownReordered |-> FALSE]

routeNumbers(data) == [i \in 1..Len(data) |-> data[i].routeNumber]

InitialUi ==
    [leaderboardData |-> <<>>, queue |-> <<>>, avg24hAvailable |-> Null,
     sortMetric |-> "live", sortMetricRef |-> "live", transitFilter |-> "all",
     tick |-> NoTick]

\* The effects that follow a render in which avg24hAvailable or sortMetric
\* changed: sortMetricRef follows sortMetric, the metric falls back to live
\* when the averages are unavailable, and a changed metric re-ranks.
afterEffects(before, rendered) ==
    LET metric == IF rendered.avg24hAvailable = <<FALSE>>
                     /\ rendered.sortMetric = "avg24h"
                  THEN "live" ELSE rendered.sortMetric
    IN IF metric = before.sortMetric /\ rendered.sortMetric = before.sortMetric
       THEN rendered
       ELSE [rendered EXCEPT
               !.sortMetric = metric,
               !.sortMetricRef = metric,
               !.leaderboardData = sortLeaderboard(rendered.leaderboardData, metric)]

\* The page after an empty response that leaves the queued updates alone.
EmptyResponseKeepingQueue(before) ==
    [before EXCEPT !.avg24hAvailable = Null, !.leaderboardData = <<>>]

\* The page after an empty response: no availability, no queued update, no
\* row.
emptyResponse(before) ==
    [before EXCEPT !.avg24hAvailable = Null,
                   !.queue = <<>>,
                   !.leaderboardData = <<>>]

\* changedData: the routes of the response that have no row, or whose row
\* differs in live speed, average or title.
changedDataOf(leaderboardData, apiRoutes) ==
    SelectSeq(apiRoutes, LAMBDA newItem :
        LET i == findIndex(leaderboardData, newItem.routeNumber)
        IN \/ i = 0
           \/ leaderboardData[i].liveSpeedKmh # newItem.liveSpeedKmh
           \/ leaderboardData[i].avg24hSpeedKmh # newItem.avg24hSpeedKmh
           \/ leaderboardData[i].routeTitle # newItem.routeTitle)

\* fetchLeaderboard, from a 200 response on; available is the first route's
\* avg24hAvailable, Null when it is not a boolean.
FetchLeaderboard(apiRoutes, available) ==
    /\ ui # NoIO
    /\ IF Len(apiRoutes) = 0
       THEN ui' = afterEffects(ui, emptyResponse(ui))
       ELSE ui' = afterEffects(ui, [ui EXCEPT
                     !.avg24hAvailable = available,
                     !.queue = upsertAll(ui.queue,
                                         changedDataOf(ui.leaderboardData, apiRoutes))])
    /\ UNCHANGED <<bucketIO, titles, setIO, kv, hasPipeline, call, ncalls, prev, upsertIO, avgIO, codecIO,
                   avgFrom, chunkIO, apiIO>>

\* orderChanged that takes a position prevData lacks for an unchanged one.
OrderChangedIgnoringAdded(prevData, sortedData) ==
    \E index \in 1..Len(sortedData) :
        /\ index <= Len(prevData)
        /\ prevData[index].routeNumber # sortedData[index].routeNumber

\* sortedData.some((item, index) => prevData[index]?.routeNumber !== item.routeNumber)
orderChanged(prevData, sortedData) ==
    \E index \in 1..Len(sortedData) :
        \/ index > Len(prevData)
        \/ prevData[index].routeNumber # sortedData[index].routeNumber

\* newData that always takes the item as a new row.
NewDataAppending(prevData, nextItem) == Append(prevData, nextItem)

\* newData: nextItem in place of the row of its route, or as a new last row
newDataOf(prevData, nextItem) ==
    LET existingIndex == findIndex(prevData, nextItem.routeNumber)
    IN IF existingIndex # 0
       THEN [prevData EXCEPT ![existingIndex] = nextItem]
       ELSE Append(prevData, nextItem)

\* processNextItem: one run of the timer callback.
ProcessNextItem ==
    /\ ui # NoIO
    /\ IF ui.queue # <<>>
       THEN LET nextItem == Head(ui.queue)
                prevData == ui.leaderboardData
                newData == newDataOf(prevData, nextItem)
                sortedData == sortLeaderboard(newData, ui.sortMetricRef)
            IN ui' = [ui EXCEPT
                        !.queue = popFront(ui.queue),
                        !.leaderboardData = sortedData,
                        !.tick = [applied |-> Len(ui.queue) - Len(popFront(ui.queue)),
                                  delay |-> IF orderChanged(prevData, sortedData)
                                            THEN 1000 ELSE 0,
                                  reordered |->
                                      routeNumbers(prevData) # routeNumbers(sortedData),
                                  shownReordered |->
                                      routeNumbers(displayed(prevData, ui.transitFilter))
                                          # routeNumbers(displayed(sortedData, ui.transitFilter))]]
       ELSE ui' = [ui EXCEPT
                     !.tick = [applied |-> 0, delay |-> 200,
                               reordered |-> FALSE, shownReordered |-> FALSE]]
    /\ UNCHANGED <<poll, bucketIO, titles, setIO, kv, hasPipeline, call, ncalls, prev, upsertIO, avgIO, codecIO,
                   avgFrom, chunkIO, apiIO>>

\* A click on "Live" or "24h avg"; the latter is disabled while the averages
\* are unavailable.
SetSortMetric(metric) ==
    /\ ui # NoIO
    /\ metric = "avg24h" => ui.avg24hAvailable # <<FALSE>>
    /\ ui' = afterEffects(ui, [ui EXCEPT !.sortMetric = metric])
    /\ UNCHANGED <<poll, bucketIO, titles, setIO, kv, hasPipeline, call, ncalls, prev, upsertIO, avgIO, codecIO,
                   avgFrom, chunkIO, apiIO>>

\* A click on a transit filter.
SetTransitFilter(transitFilter) ==
    /\ ui # NoIO
    /\ ui' = [ui EXCEPT !.transitFilter = transitFilter]
    /\ UNCHANGED <<poll, bucketIO, titles, setIO, kv, hasPipeline, call, ncalls, prev, upsertIO, avgIO, codecIO,
                   avgFrom, chunkIO, apiIO>>

InitUi ==
    /\ kv = EmptyStore
    /\ hasPipeline = TRUE
    /\ call = [c \in Calls |-> IdleCall]
    /\ ncalls = 0
    /\ prev = NoPrev
    /\ upsertIO = NoIO
    /\ avgIO = NoIO
    /\ codecIO = NoIO
    /\ avgFrom = NoAvgFrom
    /\ chunkIO = NoIO
    /\ apiIO = NoIO
    /\ ui = InitialUi
    /\ setIO = NoIO
    /\ bucketIO = NoIO
    /\ titles = NoIO
    /\ poll = NoIO

NextUi ==
    \/ \E apiRoutes \in ApiBatches, available \in {Null, <<TRUE>>, <<FALSE>>} :
           FetchLeaderboard(apiRoutes, available) /\ UNCHANGED poll
    \/ ProcessNextItem
    \/ \E metric \in {"live", "avg24h"} : SetSortMetric(metric)
    \/ \E transitFilter \in {"all", "bus"} : SetTransitFilter(transitFilter)

SpecUi == InitUi /\ [][NextUi]_vars

rankValue(item, metric) ==
    LET raw == IF metric = "avg24h" THEN item.avg24hSpeedKmh
               ELSE <<item.liveSpeedKmh>>
    IN IF raw # Null /\ IsFinite(raw[1]) THEN raw ELSE Null

\* Row a may stand directly or indirectly above row b.
rankedAbove(a, b, metric) ==
    LET aValue == rankValue(a, metric)
        bValue == rankValue(b, metric)
    IN IF aValue # Null /\ bValue # Null /\ aValue # bValue
       THEN aValue[1] > bValue[1]
       ELSE IF (aValue = Null) # (bValue = Null)
       THEN bValue = Null
       ELSE a.routeNumber < b.routeNumber

AlignedHistoryArgs ==
    /\ upsertIO.op = "result"
    /\ upsertIO.sample.t = toBucketMs(upsertIO.cutoffMs + WINDOW_MS)
    /\ \A i \in 1..Len(upsertIO.samples) :
           /\ IsFinite(upsertIO.samples[i].v)
           /\ IsFinite(upsertIO.samples[i].t)
           /\ upsertIO.samples[i].t = toBucketMs(upsertIO.samples[i].t)
           /\ upsertIO.samples[i].t <= upsertIO.sample.t

\* The entries the window trim and the upsert leave, before the cap.
leftByTrimAndUpsert ==
    Len(SelectSeq(upsertIO.samples, LAMBDA s :
            s.t >= upsertIO.cutoffMs /\ s.t # upsertIO.sample.t)) + 1

upsertedKept ==
    \E i \in 1..Len(upsertIO.result) : upsertIO.result[i] = upsertIO.sample

\* The in-window entries of the history that are later than the sample.
laterThanUpserted ==
    Len(SelectSeq(upsertIO.samples, LAMBDA s :
            InWindow(s, upsertIO.cutoffMs) /\ s.t > upsertIO.sample.t))

\* C28 as stated: for every history, cutoff and sample the output of
\* trimAndUpsert contains the upserted sample, also when the cap is applied.
C28_AsClaimed ==
    upsertIO.op = "result" => upsertedKept

\* C28, amended: the output of trimAndUpsert contains the upserted sample
\* exactly when fewer than MAX_SAMPLES_PER_ROUTE in-window entries of the
\* history are later than it; so always when the cap is not applied, and
\* under the cap when the sample is among the newest.
C28_UpsertedSampleKept ==
    upsertIO.op = "result" =>
        (upsertedKept <=>
            laterThanUpserted < Ceil(WINDOW_MS, SAMPLE_INTERVAL_MS) + 2)

\* The cap is applied and the upserted sample, the newest, is kept.
C28_Witness ==
    /\ upsertIO.op = "result"
    /\ Len(SelectSeq(upsertIO.samples, LAMBDA s : InWindow(s, upsertIO.cutoffMs)))
           > MAX_SAMPLES_PER_ROUTE
    /\ Len(upsertIO.result) = MAX_SAMPLES_PER_ROUTE
    /\ upsertedKept

\* The samples whose interval [start, end] has a positive length.
creditedPositive ==
    {i \in 1..Len(avgIO.credited) :
        avgIO.credited[i].end - avgIO.credited[i].start > 0}

\* The sum of f over the indices in S.
RECURSIVE sumOver(_, _)
sumOver(S, f) ==
    IF S = {} THEN 0
    ELSE LET i == CHOOSE x \in S : TRUE
         IN f[i] + sumOver(S \ {i}, f)

\* C29: the intervals credited to different samples never overlap, so the
\* total credited duration is at most the span of the credited intervals,
\* which is at most now - cutoff = WINDOW_MS; a sample whose duration is not
\* positive adds nothing to the weighted sum nor to the total weight.
C29_DisjointCredit ==
    AggDone =>
        LET sorted == SortByT(avgIO.samples)
            length == [i \in 1..Len(sorted) |->
                          avgIO.credited[i].end - avgIO.credited[i].start]
            weighted == [i \in 1..Len(sorted) |-> sorted[i].v * length[i]]
        IN /\ \A i, j \in creditedPositive :
                  i < j => avgIO.credited[i].end <= avgIO.credited[j].start
           /\ creditedPositive # {} =>
                  LET first == CHOOSE i \in creditedPositive :
                          \A j \in creditedPositive :
                              avgIO.credited[i].start <= avgIO.credited[j].start
                      last == CHOOSE i \in creditedPositive :
                          \A j \in creditedPositive :
                              avgIO.credited[j].end <= avgIO.credited[i].end
                  IN /\ avgIO.totalWeight
                            <= avgIO.credited[last].end - avgIO.credited[first].start
                     /\ avgIO.cutoffMs <= avgIO.credited[first].start
                     /\ avgIO.credited[last].end <= avgIO.nowMs
           /\ avgIO.totalWeight <= avgIO.nowMs - avgIO.cutoffMs
           /\ avgIO.nowMs - avgIO.cutoffMs = WINDOW_MS
           /\ avgIO.totalWeight = sumOver(creditedPositive, length)
           /\ avgIO.weightedSum = sumOver(creditedPositive, weighted)

\* Two samples half a minute apart are both credited, the first one only up
\* to the second one's timestamp.
C29_Witness ==
    /\ AggDone
    /\ \E i, j \in creditedPositive :
           /\ i < j
           /\ avgIO.credited[i].end = avgIO.credited[j].start
           /\ avgIO.credited[i].end < avgIO.credited[i].t + SAMPLE_INTERVAL_MS
    /\ avgIO.totalWeight > 0

\* The route's stored history, as the call found it, holds a sample inside
\* the window and earlier than now.
hasEarlierSample(c, tag) ==
    LET history == storedHistory(call[c].kv0, tag)
    IN \E i \in 1..Len(history) :
           /\ history[i].t >= call[c].nowMs - WINDOW_MS
           /\ history[i].t < call[c].nowMs

\* C30 as stated: a recompute refresh whose store calls all succeeded returns
\* a non-null average for every route with a finite live reading, whatever
\* now is.
C30_AsClaimed ==
    \A c \in Calls : Recomputed(c) =>
        \A tag \in routesOf(c) :
            IsFinite(liveOf(c, tag)) => call[c].out[tag] # Null

\* C30, amended: a recompute refresh whose store calls all succeeded returns
\* a non-null average for a route with a finite live reading, except when
\* now is exactly on a bucket boundary and the route's stored history holds
\* no in-window sample earlier than now: then it returns null.
C30_NonNullAverage ==
    \A c \in Calls : Recomputed(c) =>
        \A tag \in routesOf(c) :
            IsFinite(liveOf(c, tag)) =>
                (call[c].out[tag] = Null
                    <=> (/\ call[c].nowMs = bucketOf(c)
                         /\ ~hasEarlierSample(c, tag)))

\* A recompute with now on a bucket boundary that returns an average, from
\* the sample of an earlier bucket.
C30_Witness ==
    \E c \in Calls :
        /\ Recomputed(c)
        /\ call[c].nowMs = bucketOf(c)
        /\ \E tag \in routesOf(c) :
               /\ hasEarlierSample(c, tag)
               /\ call[c].out[tag] # Null

(***************************************************************************)
(* Claims about the empty batch, the two write modes and toBucketMs        *)
(***************************************************************************)
\* C31: a refresh called with an empty reading batch makes no store call
\* but the read of last-bucket and writes nothing: last-bucket, every
\* samples:<route> and every avg:<route> stay as they were at the call; when
\* it returns it returns the empty map, also when the stored marker differs
\* from bucket(now).
C31_EmptyBatchFrame ==
    \A c \in Calls :
        (call[c].pc # "idle" /\ call[c].liveRoutes = <<>>) =>
            /\ kv = call[c].kv0
            /\ call[c].pc \in {"get", "returned", "rejected"}
            /\ call[c].pending = {}
            /\ call[c].kvSets = <<>>
            /\ call[c].pc = "returned" => call[c].out = <<>>
            /\ call[c].pc = "rejected" => call[c].error = "get"

\* An empty batch returned while the store holds the marker of another
\* bucket.
C31_Witness ==
    \E c \in Calls :
        /\ call[c].pc = "returned"
        /\ call[c].liveRoutes = <<>>
        /\ call[c].out = <<>>
        /\ call[c].lastBucketMs # Null
        /\ call[c].lastBucketMs # <<bucketOf(c)>>
        /\ kv[KV_LAST_BUCKET_KEY] = NumberString(call[c].lastBucketMs[1])

(***************************************************************************)
(* setManyChunked called on kvSets of its own (SpecSets)                   *)
(*                                                                         *)
(* No write fails.  The sets of one Promise.all are requests in flight     *)
(* together: they land in any order, so a key set more than once in a      *)
(* group ends with the value of whichever of its sets landed last.         *)
(***************************************************************************)
MaxSetsLen == 3

SetTags == {"R1", "R2"} \cup {ToString(i) : i \in 1..KV_SET_OPS_PER_PIPELINE}

SetKeys == {avgKey(tag) : tag \in SetTags}

ShortSets ==
    SeqsUpTo({<<avgKey(tag), NumberString(n)>> : tag \in {"R1", "R2"}, n \in {100, 200}},
             MaxSetsLen)

\* One more entry than a group holds: avg:R1 staged first and last, every
\* other key once.
LongSets ==
    [i \in 1..(KV_SET_OPS_PER_PIPELINE + 1) |->
        IF i = 1 THEN <<avgKey("R1"), NumberString(100)>>
        ELSE IF i = KV_SET_OPS_PER_PIPELINE + 1 THEN <<avgKey("R1"), NumberString(200)>>
        ELSE <<avgKey(ToString(i)), NumberString(i)>>]

SetStores ==
    {[key \in SetKeys |-> Absent], [key \in SetKeys |-> NumberString(300)]}

\* The values the sets of part give key.
valuesFor(part, key) == {part[i][2] : i \in {j \in 1..Len(part) : part[j][1] = key}}

\* The store after every client.set of part has landed, last[key] being the
\* value of the set of key that landed last.
setsLanded(store, part, last) ==
    [key \in DOMAIN store |->
        IF valuesFor(part, key) = {} THEN store[key] ELSE last[key]]

\* setManyChunked is called; it returns at once on an empty kvSets.
CallSetManyChunked ==
    /\ setIO.pc = "called"
    /\ setIO' = [setIO EXCEPT !.pc = IF Len(setIO.kvSets) = 0 THEN "returned"
                                     ELSE "sets"]
    /\ UNCHANGED <<kv, hasPipeline, call, ncalls, prev, upsertIO, avgIO, codecIO,
                   avgFrom, chunkIO, apiIO, ui, bucketIO, titles, poll>>

\* One iteration of the pipeline loop: p.set for every entry of the part,
\* then await p.exec().
ExecPart ==
    /\ setIO.pc = "sets"
    /\ hasPipeline
    /\ LET parts == chunk(setIO.kvSets, KV_SET_OPS_PER_PIPELINE)
       IN /\ kv' = applySets(kv, parts[setIO.groups + 1])
          /\ setIO' = [setIO EXCEPT
                         !.groups = setIO.groups + 1,
                         !.pc = IF setIO.groups + 1 < Len(parts) THEN "sets"
                                ELSE "returned"]
    /\ UNCHANGED <<hasPipeline, call, ncalls, prev, upsertIO, avgIO, codecIO,
                   avgFrom, chunkIO, apiIO, ui, bucketIO, titles, poll>>

\* One iteration of the loop without pipeline: await Promise.all of one
\* client.set per entry of the part.
SetPart ==
    /\ setIO.pc = "sets"
    /\ ~hasPipeline
    /\ LET parts == chunk(setIO.kvSets, KV_SET_OPS_PER_PIPELINE)
           part == parts[setIO.groups + 1]
           staged == {part[i][1] : i \in 1..Len(part)}
           raced == {key \in staged : Cardinality(valuesFor(part, key)) > 1}
       IN /\ \E winner \in [raced -> {part[i][2] : i \in 1..Len(part)}] :
                 /\ \A key \in raced : winner[key] \in valuesFor(part, key)
                 /\ kv' = setsLanded(kv, part,
                              [key \in staged |->
                                  IF key \in raced THEN winner[key]
                                  ELSE CHOOSE v \in valuesFor(part, key) : TRUE])
          /\ setIO' = [setIO EXCEPT
                         !.groups = setIO.groups + 1,
                         !.pc = IF setIO.groups + 1 < Len(parts) THEN "sets"
                                ELSE "returned"]
    /\ UNCHANGED <<hasPipeline, call, ncalls, prev, upsertIO, avgIO, codecIO,
                   avgFrom, chunkIO, apiIO, ui, bucketIO, titles, poll>>

InitSets ==
    /\ kv \in SetStores
    /\ hasPipeline \in BOOLEAN
    /\ call = [c \in Calls |-> IdleCall]
    /\ ncalls = 0
    /\ prev = NoPrev
    /\ upsertIO = NoIO
    /\ avgIO = NoIO
    /\ codecIO = NoIO
    /\ avgFrom = NoAvgFrom
    /\ chunkIO = NoIO
    /\ apiIO = NoIO
    /\ ui = NoIO
    /\ bucketIO = NoIO
    /\ titles = NoIO
    /\ poll = NoIO
    /\ \E kvSets \in ShortSets \cup {LongSets} :
           setIO = [pc |-> "called", kvSets |-> kvSets, groups |-> 0, kv0 |-> kv]

NextSets ==
    \/ CallSetManyChunked
    \/ ExecPart
    \/ SetPart

SpecSets == InitSets /\ [][NextSets]_vars

\* The indices of kvSets that stage key.
stagedAt(key) == {i \in 1..Len(setIO.kvSets) : setIO.kvSets[i][1] = key}

lastStagedAt(key) == CHOOSE i \in stagedAt(key) : \A j \in stagedAt(key) : j <= i

\* The group of KV_SET_OPS_PER_PIPELINE consecutive entries that entry i is in.
groupOf(i) == (i - 1) \div 200

\* C32 as stated: with no write failure, when setManyChunked has returned
\* every staged key holds its last staged value and every other key is
\* untouched, with a pipeline and without.
C32_AsClaimed ==
    (setIO # NoIO /\ setIO.pc = "returned") =>
        \A key \in DOMAIN kv :
            kv[key] = IF stagedAt(key) = {} THEN setIO.kv0[key]
                      ELSE setIO.kvSets[lastStagedAt(key)][2]

\* C32, amended: with no write failure, when setManyChunked has returned
\* every key that is not staged is untouched and every staged key holds its
\* last staged value, with a pipeline and without, provided no key is staged
\* with two different values inside one group of 200 entries; without a
\* pipeline such a key holds one of the values staged for it in the last
\* group that stages it.
C32_SameFinalStore ==
    (setIO # NoIO /\ setIO.pc = "returned") =>
        \A key \in DOMAIN kv :
            IF stagedAt(key) = {} THEN kv[key] = setIO.kv0[key]
            ELSE LET inLastGroup == {i \in stagedAt(key) :
                                        groupOf(i) = groupOf(lastStagedAt(key))}
                     raced == \E i, j \in inLastGroup :
                                  setIO.kvSets[i][2] # setIO.kvSets[j][2]
                 IN /\ (hasPipeline \/ ~raced) =>
                           kv[key] = setIO.kvSets[lastStagedAt(key)][2]
                    /\ \E i \in inLastGroup : kv[key] = setIO.kvSets[i][2]

\* Without a pipeline, a key staged in the first group and again in the
\* second ends with the second value.
C32_Witness ==
    /\ setIO # NoIO
    /\ setIO.pc = "returned"
    /\ ~hasPipeline
    /\ setIO.groups = 2
    /\ Cardinality(stagedAt(avgKey("R1"))) = 2
    /\ kv[avgKey("R1")] = NumberString(200)
    /\ setIO.kv0[avgKey("R1")] # NumberString(200)

(***************************************************************************)
(* toBucketMs applied to timestamps of its own (SpecBucket)                *)
(***************************************************************************)
MaxBucketIndex == 3

\* Timestamps around the bucket boundaries on both sides of 0, and in the
\* middle of a bucket.
BucketTimes ==
    {k * SAMPLE_INTERVAL_MS + d :
        k \in (-MaxBucketIndex)..MaxBucketIndex,
        d \in (-20..20) \cup {SAMPLE_INTERVAL_MS \div 2}}

ApplyToBucketMs ==
    /\ bucketIO.op = "args"
    /\ bucketIO' = [op |-> "result", t |-> bucketIO.t,
                    bucket |-> toBucketMs(bucketIO.t),
                    again |-> toBucketMs(toBucketMs(bucketIO.t))]
    /\ UNCHANGED <<kv, hasPipeline, call, ncalls, prev, upsertIO, avgIO, codecIO,
                   avgFrom, chunkIO, apiIO, ui, setIO, titles, poll>>

InitBucket ==
    /\ kv = EmptyStore
    /\ hasPipeline = TRUE
    /\ call = [c \in Calls |-> IdleCall]
    /\ ncalls = 0
    /\ prev = NoPrev
    /\ upsertIO = NoIO
    /\ avgIO = NoIO
    /\ codecIO = NoIO
    /\ avgFrom = NoAvgFrom
    /\ chunkIO = NoIO
    /\ apiIO = NoIO
    /\ ui = NoIO
    /\ setIO = NoIO
    /\ titles = NoIO
    /\ poll = NoIO
    /\ \E t \in BucketTimes : bucketIO = [op |-> "args", t |-> t]

SpecBucket == InitBucket /\ [][ApplyToBucketMs]_vars

\* C33: for every timestamp t, negative ones included, bucket(t) is a
\* multiple of intervalMs with bucket(t) <= t < bucket(t) + intervalMs, and
\* bucket(bucket(t)) = bucket(t).
C33_BucketOfTimestamp ==
    bucketIO.op = "result" =>
        /\ \E k \in (-MaxBucketIndex - 1)..(MaxBucketIndex + 1) :
               bucketIO.bucket = k * 60000
        /\ bucketIO.bucket <= bucketIO.t
        /\ bucketIO.t < bucketIO.bucket + 60000
        /\ bucketIO.again = bucketIO.bucket

\* A negative timestamp just below a boundary: its bucket is the one before.
C33_Witness ==
    /\ bucketIO.op = "result"
    /\ bucketIO.t = -60001
    /\ bucketIO.bucket = -120000

(***************************************************************************)
(* LeaderboardQueue on its own (SpecQueue): upsertAll, popFront and clear  *)
(* in any order, upsertAll with any items, repeated routes included.  The  *)
(* queue is ui.queue; ui.op, ui.before and ui.items record the last call.  *)
(***************************************************************************)
MaxUpsertLen == 2

\* The updates differ in route and live speed.
QueueBatches ==
    SeqsUpTo({item \in UiItems : item.avg24hSpeedKmh = Null}, MaxUpsertLen)

QueueCalled(op, items, queue) ==
    [queue |-> queue, op |-> op, items |-> items, before |-> ui.queue]

QueueUpsertAll(items) ==
    /\ ui' = QueueCalled("upsertAll", items, upsertAll(ui.queue, items))
    /\ UNCHANGED <<kv, hasPipeline, call, ncalls, prev, upsertIO, avgIO, codecIO,
                   avgFrom, chunkIO, apiIO, setIO, bucketIO, titles, poll>>

QueuePopFront ==
    /\ ui' = QueueCalled("popFront", <<>>, popFront(ui.queue))
    /\ UNCHANGED <<kv, hasPipeline, call, ncalls, prev, upsertIO, avgIO, codecIO,
                   avgFrom, chunkIO, apiIO, setIO, bucketIO, titles, poll>>

QueueClear ==
    /\ ui' = QueueCalled("clear", <<>>, <<>>)
    /\ UNCHANGED <<kv, hasPipeline, call, ncalls, prev, upsertIO, avgIO, codecIO,
                   avgFrom, chunkIO, apiIO, setIO, bucketIO, titles, poll>>

InitQueue ==
    /\ kv = EmptyStore
    /\ hasPipeline = TRUE
    /\ call = [c \in Calls |-> IdleCall]
    /\ ncalls = 0
    /\ prev = NoPrev
    /\ upsertIO = NoIO
    /\ avgIO = NoIO
    /\ codecIO = NoIO
    /\ avgFrom = NoAvgFrom
    /\ chunkIO = NoIO
    /\ apiIO = NoIO
    /\ setIO = NoIO
    /\ bucketIO = NoIO
    /\ titles = NoIO
    /\ poll = NoIO
    /\ ui = [queue |-> <<>>, op |-> "new", items |-> <<>>, before |-> <<>>]

NextQueue ==
    \/ \E items \in QueueBatches : QueueUpsertAll(items)
    \/ QueuePopFront
    \/ QueueClear

SpecQueue == InitQueue /\ [][NextQueue]_vars

\* The routes of a list of items.
routesIn(items) == {items[i].routeNumber : i \in 1..Len(items)}

\* The last item of a list for a route.
lastFor(items, routeNumber) ==
    items[CHOOSE i \in 1..Len(items) :
              /\ items[i].routeNumber = routeNumber
              /\ \A j \in (i + 1)..Len(items) : items[j].routeNumber # routeNumber]

\* C34: after any sequence of upsertAll, popFront and clear no two queued
\* items share a routeNumber, so the queue is no longer than there are
\* routes; upsertAll leaves every queued route at its position, with the
\* newest item given for it if any, and puts the routes that were not queued
\* behind them.
C34_QueueOnePerRoute ==
    ui # NoIO =>
        /\ \A i, j \in 1..Len(ui.queue) :
               i # j => ui.queue[i].routeNumber # ui.queue[j].routeNumber
        /\ Len(ui.queue) <= Cardinality(UiRoutes)
        /\ ui.op = "upsertAll" =>
               /\ Len(ui.queue) =
                      Len(ui.before)
                      + Cardinality(routesIn(ui.items) \ routesIn(ui.before))
               /\ \A i \in 1..Len(ui.before) :
                      /\ ui.queue[i].routeNumber = ui.before[i].routeNumber
                      /\ ui.queue[i] =
                             IF ui.before[i].routeNumber \in routesIn(ui.items)
                             THEN lastFor(ui.items, ui.before[i].routeNumber)
                             ELSE ui.before[i]
               /\ \A i \in (Len(ui.before) + 1)..Len(ui.queue) :
                      /\ ui.queue[i].routeNumber \notin routesIn(ui.before)
                      /\ ui.queue[i] = lastFor(ui.items, ui.queue[i].routeNumber)

\* upsertAll of an update for the queued route and of a new route: the
\* queued route stays in front with the update, the new one is behind.
C34_Witness ==
    /\ ui # NoIO
    /\ ui.op = "upsertAll"
    /\ Len(ui.before) = 1
    /\ Len(ui.queue) = 2
    /\ ui.queue[1].routeNumber = ui.before[1].routeNumber
    /\ ui.queue[1] # ui.before[1]
    /\ ui.items[1].routeNumber = ui.queue[2].routeNumber

(***************************************************************************)
(* The poll and the update loop with timers that keep firing (SpecUiLive): *)
(* processNextItem re-arms its timer on every run, so a run always         *)
(* follows.  The polls answer with live speeds only.                       *)
(***************************************************************************)
ApiBatchesLive ==
    {batch \in ApiBatches :
        \A i \in 1..Len(batch) : batch[i].avg24hSpeedKmh = Null}

NextUiLive ==
    \/ \E apiRoutes \in ApiBatchesLive :
           FetchLeaderboard(apiRoutes, <<TRUE>>) /\ UNCHANGED poll
    \/ ProcessNextItem

SpecUiLive == InitUi /\ [][NextUiLive]_vars /\ WF_vars(ProcessNextItem)

queued(item) == \E i \in 1..Len(ui.queue) : ui.queue[i] = item

\* A step by which item leaves the queue is a pop of it from the front that
\* puts it in the leaderboard, or its replacement at its position by another
\* update for its route, or the clearing of queue and leaderboard.
leavesQueueProperly(item) ==
    (queued(item) /\ ~queued(item)') =>
        \/ /\ Head(ui.queue) = item
           /\ ui'.queue = Tail(ui.queue)
           /\ \E i \in 1..Len(ui'.leaderboardData) : ui'.leaderboardData[i] = item
        \/ /\ Len(ui'.queue) >= Len(ui.queue)
           /\ \E i \in 1..Len(ui.queue) :
                  /\ ui.queue[i] = item
                  /\ ui'.queue[i] # item
                  /\ ui'.queue[i].routeNumber = item.routeNumber
        \/ /\ ui'.queue = <<>>
           /\ ui'.leaderboardData = <<>>

\* C35: with timers that keep firing, every update in the queue eventually
\* leaves it, and it leaves it only by being popped and applied to the
\* leaderboard, by being replaced in the queue by another update for its
\* route, or by the clearing that an empty API response causes.
C35_NoStarvation ==
    /\ \A item \in UiItems : queued(item) ~> ~queued(item)
    /\ [][\A item \in UiItems : leavesQueueProperly(item)]_vars

\* An update waits behind another one in the queue.
C35_Witness ==
    /\ ui # NoIO
    /\ Len(ui.queue) = 2
    /\ Len(ui.leaderboardData) = 2
    /\ ui.tick.applied = 1

\* The routes that have a row.
rowRoutes(leaderboardData) ==
    {leaderboardData[i].routeNumber : i \in 1..Len(leaderboardData)}

\* C38: in every reachable state of the page the leaderboard holds at most
\* one row per routeNumber; a step that applies a queued update for a route
\* that has a row keeps the rows' routes and puts the update in that route's
\* row, a step that applies one for a route without a row adds one row, and
\* no other step adds a row.
C38_OneRowPerRoute ==
    /\ [](\A i, j \in 1..Len(ui.leaderboardData) :
              i # j => ui.leaderboardData[i].routeNumber
                           # ui.leaderboardData[j].routeNumber)
    /\ [][LET applied == /\ ui.queue # <<>>
                         /\ ui'.queue = Tail(ui.queue)
                         /\ ui'.leaderboardData # <<>>
                         /\ ui'.tick.applied = 1
              before == ui.leaderboardData
              after == ui'.leaderboardData
          IN /\ applied =>
                  LET nextItem == Head(ui.queue)
                  IN /\ \E i \in 1..Len(after) : after[i] = nextItem
                     /\ rowRoutes(after) = rowRoutes(before) \cup {nextItem.routeNumber}
                     /\ Len(after) = IF nextItem.routeNumber \in rowRoutes(before)
                                     THEN Len(before) ELSE Len(before) + 1
                     /\ \A i \in 1..Len(before) :
                            before[i].routeNumber # nextItem.routeNumber =>
                                \E j \in 1..Len(after) : after[j] = before[i]
             /\ Len(after) > Len(before) => applied
       ]_vars

\* An update applied to a route that has a row already, next to another row.
C38_Witness ==
    /\ ui # NoIO
    /\ ui.tick.applied = 1
    /\ ~ui.tick.reordered
    /\ Len(ui.leaderboardData) = 2

(***************************************************************************)
(* The poll and the update loop with a record of the polls (SpecUiPoll).   *)
(* poll is a history variable: routes is the route set of the latest       *)
(* successful response, emptied says that some response was empty, since   *)
(* holds the updates queued by the responses after the latest empty one,   *)
(* dropped says that the latest empty response found updates queued, and   *)
(* flip changes with every response.                                       *)
(***************************************************************************)
NoPoll == [flip |-> 0, routes |-> {}, emptied |-> FALSE, since |-> {},
           dropped |-> FALSE]

\* One successful poll: fetchLeaderboard on its response, and the record.
PollResponse(apiRoutes) ==
    /\ FetchLeaderboard(apiRoutes, <<TRUE>>)
    /\ poll' = IF apiRoutes = <<>>
               THEN [flip |-> 1 - poll.flip, routes |-> {}, emptied |-> TRUE,
                     since |-> {}, dropped |-> ui.queue # <<>>]
               ELSE [poll EXCEPT
                       !.flip = 1 - poll.flip,
                       !.routes = rowRoutes(apiRoutes),
                       !.since = poll.since \cup
                           LET changedData ==
                                   changedDataOf(ui.leaderboardData, apiRoutes)
                           IN {changedData[i] : i \in 1..Len(changedData)}]

InitUiPoll ==
    /\ kv = EmptyStore
    /\ hasPipeline = TRUE
    /\ call = [c \in Calls |-> IdleCall]
    /\ ncalls = 0
    /\ prev = NoPrev
    /\ upsertIO = NoIO
    /\ avgIO = NoIO
    /\ codecIO = NoIO
    /\ avgFrom = NoAvgFrom
    /\ chunkIO = NoIO
    /\ apiIO = NoIO
    /\ ui = InitialUi
    /\ setIO = NoIO
    /\ bucketIO = NoIO
    /\ titles = NoIO
    /\ poll = NoPoll

NextUiPoll ==
    \/ \E apiRoutes \in ApiBatchesLive : PollResponse(apiRoutes)
    \/ ProcessNextItem

SpecUiPoll == InitUiPoll /\ [][NextUiPoll]_vars

\* C36: a successful poll with an empty route list leaves the queue and the
\* leaderboard empty, and once a response was empty every step of the update
\* loop that changes the leaderboard applies the front of the queue, which
\* is an update queued by a response after the latest empty one.
C36_EmptyResponseClears ==
    [][LET response == poll'.flip # poll.flip
       IN /\ (response /\ poll'.routes = {}) =>
                 /\ ui'.queue = <<>>
                 /\ ui'.leaderboardData = <<>>
          /\ (~response /\ poll.emptied
                  /\ ui'.leaderboardData # ui.leaderboardData) =>
                 /\ ui.queue # <<>>
                 /\ Head(ui.queue) \in poll.since
                 /\ ui'.queue = Tail(ui.queue)
                 /\ \A i \in 1..Len(ui'.leaderboardData) :
                        ui'.leaderboardData[i] \in poll.since
      ]_vars

\* An empty response found updates queued, and an update of a later response
\* has been applied since.
C36_Witness ==
    /\ poll # NoIO
    /\ poll.emptied
    /\ poll.dropped
    /\ poll.routes # {}
    /\ ui.leaderboardData # <<>>
    /\ ui.tick.applied = 1

\* C37, as claimed: whenever the queue is drained, the routes with a row are
\* the routes of the latest successful response.
C37_AsClaimed ==
    (poll # NoIO /\ ui.queue = <<>>) =>
        rowRoutes(ui.leaderboardData) = poll.routes

(***************************************************************************)
(* The route-title cache (SpecTitles).  titles holds the module-level      *)
(* routeTitlesCache, the clock that Date.now() reads, and the calls of     *)
(* getRouteTitlesByTag in flight: a call is suspended at its fetch, so a   *)
(* second call can run in between.  The API handler and the sampling       *)
(* script carry the same function; the script returns the fallback from    *)
(* the status check where the handler throws into its own catch.           *)
(***************************************************************************)
ROUTE_TITLES_TTL_MS == 60 * 60 * 1000

MaxTitleHours == 1

TitleClock ==
    {hour * ROUTE_TITLES_TTL_MS + ms : hour \in 0..MaxTitleHours, ms \in {0, 1000}}

TitleCalls == {"t1", "t2"}

\* An attribute of a parsed route: a string, or something that is not one.
StringAttr(s) == [type |-> "string", s |-> s]
NoAttr == [type |-> "undefined", s |-> ""]

FeedRoute(tag, title) == [tag |-> tag, title |-> title]

\* The routeList answers: none, one route, a route without title, a tag
\* listed twice, a route without tag.
RouteLists ==
    {<<>>,
     <<FeedRoute(StringAttr("501"), StringAttr("Queen"))>>,
     <<FeedRoute(StringAttr("501"), StringAttr("Queen")),
       FeedRoute(StringAttr("7"), StringAttr(""))>>,
     <<FeedRoute(StringAttr("501"), StringAttr("Queen")),
       FeedRoute(StringAttr("501"), StringAttr("King"))>>,
     <<FeedRoute(NoAttr, StringAttr("Queen")),
       FeedRoute(StringAttr(""), StringAttr("King")),
       FeedRoute(StringAttr("7"), NoAttr)>>}

\* fetch rejects, the status is not ok, or the parser throws
FetchFailures == {"rejected", "status", "parse"}

NoTitles == [tag \in {} |-> ""]

\* The loop over the routes: a route counts when tag and title are
\* non-empty strings, and a later route takes the place of an earlier one
\* with its tag.
titlesFrom(routes) ==
    LET counts(i) == /\ routes[i].tag.type = "string"
                     /\ routes[i].tag.s # ""
                     /\ routes[i].title.type = "string"
                     /\ routes[i].title.s # ""
        valid == {i \in 1..Len(routes) : counts(i)}
    IN [tag \in {routes[i].tag.s : i \in valid} |->
           LET last == CHOOSE i \in valid :
                           /\ routes[i].tag.s = tag
                           /\ \A j \in valid : routes[j].tag.s = tag => j <= i
           IN routes[last].title.s]

\* routeTitlesCache && now - routeTitlesCache.fetchedAtMs < ROUTE_TITLES_TTL_MS
withinTtl(routeTitlesCache, now) ==
    /\ routeTitlesCache # Null
    /\ now - routeTitlesCache[1].fetchedAtMs < ROUTE_TITLES_TTL_MS

\* routeTitlesCache?.titlesByRouteTag ?? {}
cachedOrEmpty(routeTitlesCache) ==
    IF routeTitlesCache = Null THEN NoTitles
    ELSE routeTitlesCache[1].titlesByRouteTag

\* A catch that remembers what it returned as fetched at now.
CatchStoringFallback(routeTitlesCache, now) ==
    [pc |-> "returned", result |-> cachedOrEmpty(routeTitlesCache),
     routeTitlesCache |-> <<[fetchedAtMs |-> now,
                             titlesByRouteTag |-> cachedOrEmpty(routeTitlesCache)]>>]

\* The catch block: the call returns the fallback, the cache stays.
catchOutcome(routeTitlesCache, now) ==
    [pc |-> "returned", result |-> cachedOrEmpty(routeTitlesCache),
     routeTitlesCache |-> routeTitlesCache]

IdleTitleCall ==
    [pc |-> "idle", now |-> 0, seen |-> Null, result |-> NoTitles,
     fetched |-> FALSE, failure |-> "none"]

TitlesUnchanged ==
    UNCHANGED <<kv, hasPipeline, call, ncalls, prev, upsertIO, avgIO, codecIO,
                avgFrom, chunkIO, apiIO, ui, setIO, bucketIO, poll>>

\* Time passes.
TitlesClock ==
    /\ titles # NoIO
    /\ \E now \in TitleClock :
           /\ now > titles.clock
           /\ titles' = [titles EXCEPT !.clock = now]
    /\ TitlesUnchanged

\* getRouteTitlesByTag up to its return from the cache or to its fetch.
GetRouteTitlesByTag(c) ==
    /\ titles # NoIO
    /\ titles.calls[c].pc # "fetching"
    /\ LET now == titles.clock
       IN IF withinTtl(titles.routeTitlesCache, now)
          THEN titles' = [titles EXCEPT !.calls[c] =
                   [pc |-> "returned", now |-> now,
                    seen |-> titles.routeTitlesCache,
                    result |-> titles.routeTitlesCache[1].titlesByRouteTag,
                    fetched |-> FALSE, failure |-> "none"]]
          ELSE titles' = [titles EXCEPT !.calls[c] =
                   [pc |-> "fetching", now |-> now,
                    seen |-> titles.routeTitlesCache,
                    result |-> NoTitles,
                    fetched |-> TRUE, failure |-> "none"]]
    /\ TitlesUnchanged

\* The fetch answers with a route list: the call stores and returns its
\* titles.
FetchRouteListOk(c, routes) ==
    /\ titles # NoIO
    /\ titles.calls[c].pc = "fetching"
    /\ LET titlesByRouteTag == titlesFrom(routes)
       IN titles' = [titles EXCEPT
              !.routeTitlesCache = <<[fetchedAtMs |-> titles.calls[c].now,
                                      titlesByRouteTag |-> titlesByRouteTag]>>,
              !.calls[c].pc = "returned",
              !.calls[c].result = titlesByRouteTag]
    /\ TitlesUnchanged

\* The fetch fails: the call ends in its catch block.
FetchRouteListFails(c, failure) ==
    /\ titles # NoIO
    /\ titles.calls[c].pc = "fetching"
    /\ LET outcome == catchOutcome(titles.routeTitlesCache, titles.calls[c].now)
       IN titles' = [titles EXCEPT
              !.routeTitlesCache = outcome.routeTitlesCache,
              !.calls[c].pc = outcome.pc,
              !.calls[c].result = outcome.result,
              !.calls[c].failure = failure]
    /\ TitlesUnchanged

InitTitles ==
    /\ kv = EmptyStore
    /\ hasPipeline = TRUE
    /\ call = [c \in Calls |-> IdleCall]
    /\ ncalls = 0
    /\ prev = NoPrev
    /\ upsertIO = NoIO
    /\ avgIO = NoIO
    /\ codecIO = NoIO
    /\ avgFrom = NoAvgFrom
    /\ chunkIO = NoIO
    /\ apiIO = NoIO
    /\ ui = NoIO
    /\ setIO = NoIO
    /\ bucketIO = NoIO
    /\ poll = NoIO
    /\ titles = [routeTitlesCache |-> Null, clock |-> 0,
                 calls |-> [c \in TitleCalls |-> IdleTitleCall]]

NextTitles ==
    \/ TitlesClock
    \/ \E c \in TitleCalls : GetRouteTitlesByTag(c)
    \/ \E c \in TitleCalls, routes \in RouteLists : FetchRouteListOk(c, routes)
    \/ \E c \in TitleCalls, failure \in FetchFailures : FetchRouteListFails(c, failure)

SpecTitles == InitTitles /\ [][NextTitles]_vars

\* The call c has just ended in its catch block.
failedReturn(c) ==
    /\ titles.calls[c].pc = "fetching"
    /\ titles'.calls[c].pc # "fetching"
    /\ titles'.calls[c].failure # "none"

\* C39: getRouteTitlesByTag always ends by returning; a call made within the
\* TTL of the cache returns the cached titles without fetching; a call whose
\* fetch fails returns the cached titles, or an empty map when there is no
\* cache, and leaves the cache as it is; and as long as no other call has
\* stored since such a call began, the cache is still missing or expired, so
\* that the next call fetches.
C39_BestEffortTitles ==
    /\ [](titles # NoIO =>
            \A c \in TitleCalls :
                /\ titles.calls[c].pc \in {"idle", "fetching", "returned"}
                /\ (/\ titles.calls[c].pc = "returned"
                    /\ titles.calls[c].failure # "none"
                    /\ titles.routeTitlesCache = titles.calls[c].seen)
                       => ~withinTtl(titles.routeTitlesCache, titles.clock))
    /\ [][\A c \in TitleCalls :
            /\ (/\ titles.calls[c].pc # "fetching"
                /\ titles'.calls[c] # titles.calls[c]
                /\ withinTtl(titles.routeTitlesCache, titles.clock)) =>
                   /\ titles'.calls[c].pc = "returned"
                   /\ ~titles'.calls[c].fetched
                   /\ titles'.calls[c].result
                          = titles.routeTitlesCache[1].titlesByRouteTag
                   /\ titles'.routeTitlesCache = titles.routeTitlesCache
            /\ failedReturn(c) =>
                   /\ titles'.calls[c].pc = "returned"
                   /\ titles'.calls[c].result
                          = IF titles.routeTitlesCache = Null THEN NoTitles
                            ELSE titles.routeTitlesCache[1].titlesByRouteTag
                   /\ titles'.routeTitlesCache = titles.routeTitlesCache
       ]_vars

\* A call found the cache expired, its fetch failed, and it returned the
\* titles cached more than an hour before.
C39_Witness ==
    /\ titles # NoIO
    /\ \E c \in TitleCalls :
           /\ titles.calls[c].pc = "returned"
           /\ titles.calls[c].failure = "status"
           /\ titles.calls[c].seen # Null
           /\ titles.calls[c].result # NoTitles
           /\ titles.routeTitlesCache = titles.calls[c].seen
           /\ titles.calls[c].now - titles.routeTitlesCache[1].fetchedAtMs
                  >= ROUTE_TITLES_TTL_MS

=============================================================================
